---- MODULE Spec2Model ----
(***************************************************************************)
(* Model of the Whisperspace rules-reference panel (src/ui/RulesApp.tsx):  *)
(* the rules loader (loadLatest), the search filter, the match counter,    *)
(* the content normalizer, the keyword matcher (weaponKeywords.ts), the    *)
(* glossary builder, the text annotator, the table renderer and the dice   *)
(* roll through Dice+ (checkDicePlusReady, rollWithDicePlusTotal).         *)
(*                                                                         *)
(* Strings are sequences of one-character strings.  A document version is  *)
(* a natural number; version 0 is the data bundled with the build, and 0   *)
(* also stands for "no entry" in the persisted cache.                      *)
(***************************************************************************)
EXTENDS Integers, Sequences, FiniteSets, TLC

VARIABLES
    \* ---- rules loader (RulesApp useEffect / loadLatest) ----
    serverVer,     \* version of the document the server currently publishes
    lsMeta,        \* localStorage ws_rules_meta_v1 (version), 0 = absent
    lsEtag,        \* localStorage ws_rules_meta_etag_v1, 0 = absent
    lsCache,       \* localStorage ws_rules_cache_v1 (document version), 0 = absent
    rules,         \* React state `rules`: the in-memory document set
    mounted,       \* the component is mounted
    cur,           \* number of load attempts started so far
    att,           \* per attempt: the frame of loadLatest (see NewFrame)
    returned,      \* the latest return of loadLatest: [a |-> attempt, how |-> ...]
    unhandled,     \* an exception escaped loadLatest
    \* ---- search (RulesApp render: filtered, search-result list) ----
    doc,           \* one RuleDoc of `rules`
    q,             \* the query: query.trim().toLowerCase()
    rendered,      \* the render pass below has run
    selfMatch,     \* sectionMatchesQuery(doc, q)
    filtered,      \* filterSection(doc, q)
    fullCount,     \* countQueryMatches(doc, q)
    shownCount,    \* the count displayed for doc in the result list, -1 = not listed
    \* ---- content normalizer (RuleSectionView) ----
    sectionContent, \* props.section.content of the section view
    viewed,        \* the section view has rendered
    content,       \* the view's `content`: normalizeContent(section.content)
    \* ---- table rendering (renderBlock) ----
    tableBlock,    \* the table block handed to renderBlock
    tableQuery,    \* the query handed to renderBlock
    tableShown,    \* renderBlock has run
    tableView,     \* what renderBlock returned
    \* ---- keyword matcher (weaponKeywords.ts) ----
    kwDefs,        \* the keyword definitions the matchers are built from
    kwInput,       \* the raw keyword handed to resolveWeaponKeyword
    kwResolved,    \* resolveWeaponKeyword has run
    kwMatchers,    \* the matchers built at load time
    kwResult,      \* what resolveWeaponKeyword returned
    \* ---- glossary (buildGlossary) ----
    glDocs,        \* the document set
    glAttributes,  \* the attribute tooltips
    glSkills,      \* the skill tooltips
    glKeywords,    \* the weapon keyword definitions
    glBuilt,       \* buildGlossary has run
    glGlossary,    \* what buildGlossary returned
    \* ---- text annotation (renderGlossaryText) ----
    anGlossary,    \* the glossary shared by the annotate calls
    reLastIndex,   \* lastIndex of the glossary's compiled pattern
    anCalls,       \* number of annotate calls so far
    anText,        \* text of the latest call
    anQuery,       \* query of the latest call
    anNodes,       \* what the latest call returned
    \* ---- keyword table row (buildAnchorMaps, renderBlock) ----
    rowTable,      \* a keyword table of the document set
    rowQuery,      \* the query handed to renderBlock
    rowShown,      \* the glossary is built and the table rendered
    rowGlossary,   \* the glossary built from the document set
    rowView,       \* what renderBlock returned for the table
    \* ---- dice roll (rollWithDicePlusTotal) ----
    dicePc,        \* where the call of rollWithDicePlusTotal stands
    diceOutcome,   \* the promise the call returned: pending, resolved, rejected
    readyOutcome,  \* the promise of checkDicePlusReady: "none", "pending", "true", "false"
    readyListening, \* the listener of checkDicePlusReady is subscribed
    readyTimer,    \* the timer of checkDicePlusReady is armed
    rollListening, \* the roll-result and roll-error listeners are subscribed
    rollTimer,     \* the timer of rollWithDicePlusTotal is armed
    diceMsgs,      \* number of broadcast messages delivered so far
    diceLast       \* the broadcast message delivered last

loaderVars == <<serverVer, lsMeta, lsEtag, lsCache, rules, mounted, cur, att,
                returned, unhandled>>

searchVars == <<doc, q, rendered, selfMatch, filtered, fullCount, shownCount>>

viewVars == <<sectionContent, viewed, content>>

blockVars == <<tableBlock, tableQuery, tableShown, tableView>>

keywordVars == <<kwDefs, kwInput, kwResolved, kwMatchers, kwResult>>

glossaryVars == <<glDocs, glAttributes, glSkills, glKeywords, glBuilt, glGlossary>>

annotateVars == <<anGlossary, reLastIndex, anCalls, anText, anQuery, anNodes>>

rowVars == <<rowTable, rowQuery, rowShown, rowGlossary, rowView>>

diceVars == <<dicePc, diceOutcome, readyOutcome, readyListening, readyTimer,
              rollListening, rollTimer, diceMsgs, diceLast>>

\* The state of the annotation engine's functions.
engineVars == <<keywordVars, glossaryVars, annotateVars, rowVars>>

\* What the loader leaves alone, and what the render passes leave alone.
nonLoaderVars == <<searchVars, viewVars, blockVars, engineVars, diceVars>>
nonSearchVars == <<loaderVars, viewVars, blockVars, engineVars, diceVars>>
nonViewVars == <<loaderVars, searchVars, blockVars, engineVars, diceVars>>
nonBlockVars == <<loaderVars, searchVars, viewVars, engineVars, diceVars>>
appVars == <<loaderVars, searchVars, viewVars, blockVars>>
nonKeywordVars == <<appVars, glossaryVars, annotateVars, rowVars, diceVars>>
nonGlossaryVars == <<appVars, keywordVars, annotateVars, rowVars, diceVars>>
nonAnnotateVars == <<appVars, keywordVars, glossaryVars, rowVars, diceVars>>
nonRowVars == <<appVars, keywordVars, glossaryVars, annotateVars, diceVars>>
nonDiceVars == <<appVars, engineVars>>

vars == <<loaderVars, searchVars, viewVars, blockVars, engineVars, diceVars>>

----------------------------------------------------------------------------
(* Bounds *)
MaxAttempts == 3
MaxVer == 2

Attempts == 1..MaxAttempts

\* Largest number of sections in a document.
MaxSections == 3

\* Largest number of content blocks in a section.
MaxBlocks == 4

\* Largest number of comma-separated tokens in a table cell.
MaxTokens == 2

----------------------------------------------------------------------------
(* Rules loader *)

\* The frame of one call of loadLatest:
\*   pc         await point ("idle" before the call, "done" after it)
\*   cancelled  the effect's `cancelled` flag
\*   cachedMeta local cachedMeta (its version), 0 = null
\*   cachedEtag local cachedEtag, 0 = ""
\*   metaVer    meta.version of the 200 response
\*   metaEtag   ETag header of the 200 response, 0 = none
\*   data       body of the rules.json response
NewFrame ==
    [pc |-> "idle", cancelled |-> FALSE, cachedMeta |-> 0, cachedEtag |-> 0,
     metaVer |-> 0, metaEtag |-> 0, data |-> 0]

\* useState initializer of `rules`: the cached document when there is one,
\* the bundled rulesData otherwise.
InitialRules(cache) == IF cache # 0 THEN cache ELSE 0

\* The server's answer to GET meta.json: 304 exactly when the request's
\* If-None-Match token is its current token.
MetaStatus(etag) == IF etag # 0 /\ etag = serverVer THEN 304 ELSE 200

\* loadLatest returns: its locals are gone.  how: "revalidated", "downloaded"
\* and "cachehit" are the three places that call setRules; "failed" is a
\* request that threw, a status that is not ok or a payload that did not
\* parse; "discarded" is a return because `cancelled` is set; "noop" is any
\* other return.
Finish(a, how) ==
    /\ att' = [att EXCEPT ![a] = [NewFrame EXCEPT !.pc = "done",
                                                  !.cancelled = att[a].cancelled]]
    /\ returned' = [a |-> a, how |-> how]

Catch_FallbackToBundled(a) ==
    /\ Finish(a, "failed")
    /\ rules' = InitialRules(0)
    /\ UNCHANGED unhandled

\* catch { ... }: the exception is swallowed; the state `rules` is not touched.
Catch(a) ==
    /\ Finish(a, "failed")
    /\ UNCHANGED <<rules, unhandled>>

LoaderInit ==
    /\ serverVer = 1
    /\ lsMeta = 0
    /\ lsEtag = 0
    /\ lsCache = 0
    /\ rules = InitialRules(0)
    /\ mounted = FALSE
    /\ cur = 0
    /\ att = [a \in Attempts |-> NewFrame]
    /\ returned = [a |-> 0, how |-> "none"]
    /\ unhandled = FALSE

\* The component mounts and its effect starts loadLatest, which runs up to
\* the first await (the metadata request).  fresh = a new component instance
\* (the state initializer runs); otherwise the effect is re-run on the same
\* instance (React.StrictMode) and the state is kept.
Mount(fresh) ==
    /\ ~mounted
    /\ UNCHANGED nonLoaderVars
    /\ cur < MaxAttempts
    /\ fresh \/ cur > 0
    /\ mounted' = TRUE
    /\ cur' = cur + 1
    /\ rules' = IF fresh THEN InitialRules(lsCache) ELSE rules
    /\ att' = [att EXCEPT ![cur + 1] = [NewFrame EXCEPT !.pc = "awaitMeta",
                                                        !.cachedMeta = lsMeta,
                                                        !.cachedEtag = lsEtag]]
    /\ UNCHANGED <<serverVer, lsMeta, lsEtag, lsCache, returned, unhandled>>

\* Effect cleanup: cancelled = true.  Nothing is aborted.
Unmount ==
    /\ mounted
    /\ UNCHANGED nonLoaderVars
    /\ mounted' = FALSE
    /\ att' = [att EXCEPT ![cur].cancelled = TRUE]
    /\ UNCHANGED <<serverVer, lsMeta, lsEtag, lsCache, rules, cur, returned,
                   unhandled>>

\* The server publishes a new document.
ServerPublish ==
    /\ serverVer < MaxVer
    /\ UNCHANGED nonLoaderVars
    /\ serverVer' = serverVer + 1
    /\ UNCHANGED <<lsMeta, lsEtag, lsCache, rules, mounted, cur, att, returned,
                   unhandled>>

\* `await fetch(meta.json)` settles.  kind: "throw" (network error),
\* "notok" (an error status), "answer" (304 or 200); hdr: the 200 response
\* carries an ETag header.
MetaResponse(a, kind, hdr) ==
    /\ att[a].pc = "awaitMeta"
    /\ UNCHANGED nonLoaderVars
    /\ UNCHANGED <<serverVer, lsMeta, lsEtag, lsCache, mounted, cur>>
    /\ CASE kind = "throw" ->
              Catch(a)
         [] kind = "notok" ->
              \* status is neither 304 nor ok: `if (!metaRes.ok) return`
              /\ Finish(a, "failed")
              /\ UNCHANGED <<rules, unhandled>>
         [] kind = "answer" /\ MetaStatus(att[a].cachedEtag) = 304 ->
              /\ UNCHANGED unhandled
              /\ IF att[a].cachedMeta # 0
                 THEN IF lsCache # 0 /\ ~att[a].cancelled
                      THEN /\ rules' = lsCache
                           /\ Finish(a, "revalidated")
                      ELSE /\ UNCHANGED rules
                           /\ Finish(a, IF lsCache # 0 THEN "discarded" ELSE "noop")
                 ELSE \* 304 is not an ok status: `if (!metaRes.ok) return`
                      /\ UNCHANGED rules
                      /\ Finish(a, "noop")
         [] kind = "answer" /\ MetaStatus(att[a].cachedEtag) = 200 ->
              /\ att' = [att EXCEPT ![a].pc = "awaitMetaJson",
                                    ![a].metaVer = serverVer,
                                    ![a].metaEtag = IF hdr THEN serverVer ELSE 0]
              /\ UNCHANGED <<rules, returned, unhandled>>

\* `await metaRes.json()` settles, then the code runs to the next await or
\* to its return.
MetaJson(a, parsed) ==
    /\ att[a].pc = "awaitMetaJson"
    /\ UNCHANGED nonLoaderVars
    /\ UNCHANGED <<serverVer, lsMeta, lsCache, mounted, cur>>
    /\ IF ~parsed
       THEN /\ Catch(a)
            /\ UNCHANGED lsEtag
       ELSE /\ lsEtag' = IF att[a].metaEtag # 0 THEN att[a].metaEtag ELSE lsEtag
            /\ UNCHANGED unhandled
            /\ IF att[a].cachedMeta = 0 \/ att[a].cachedMeta # att[a].metaVer
               THEN /\ att' = [att EXCEPT ![a].pc = "awaitRules"]
                    /\ UNCHANGED <<rules, returned>>
               ELSE IF lsCache # 0 /\ ~att[a].cancelled
                    THEN /\ rules' = lsCache
                         /\ Finish(a, "cachehit")
                    ELSE /\ UNCHANGED rules
                         /\ Finish(a, IF lsCache # 0 THEN "discarded" ELSE "noop")

\* `await fetch(rules.json)` settles.
RulesResponse(a, kind) ==
    /\ att[a].pc = "awaitRules"
    /\ UNCHANGED nonLoaderVars
    /\ UNCHANGED <<serverVer, lsMeta, lsEtag, lsCache, mounted, cur>>
    /\ CASE kind = "throw" ->
              Catch(a)
         [] kind = "notok" ->
              /\ Finish(a, "failed")
              /\ UNCHANGED <<rules, unhandled>>
         [] kind = "answer" ->
              /\ att' = [att EXCEPT ![a].pc = "awaitRulesJson",
                                    ![a].data = serverVer]
              /\ UNCHANGED <<rules, returned, unhandled>>

RulesJson_NoCancelledCheck(a, parsed) ==
    /\ att[a].pc = "awaitRulesJson"
    /\ UNCHANGED nonLoaderVars
    /\ UNCHANGED <<serverVer, lsEtag, mounted, cur>>
    /\ IF ~parsed
       THEN /\ Catch(a)
            /\ UNCHANGED <<lsMeta, lsCache>>
       ELSE /\ UNCHANGED unhandled
            /\ lsMeta' = att[a].metaVer
            /\ lsCache' = att[a].data
            /\ rules' = att[a].data
            /\ Finish(a, IF att[a].cancelled THEN "discarded" ELSE "downloaded")

\* `await rulesRes.json()` settles.
RulesJson(a, parsed) ==
    /\ att[a].pc = "awaitRulesJson"
    /\ UNCHANGED nonLoaderVars
    /\ UNCHANGED <<serverVer, lsEtag, mounted, cur>>
    /\ IF ~parsed
       THEN /\ Catch(a)
            /\ UNCHANGED <<lsMeta, lsCache>>
       ELSE /\ UNCHANGED unhandled
            /\ IF att[a].cancelled
               THEN /\ Finish(a, "discarded")
                    /\ UNCHANGED <<lsMeta, lsCache, rules>>
               ELSE /\ lsMeta' = att[a].metaVer
                    /\ lsCache' = att[a].data
                    /\ rules' = att[a].data
                    /\ Finish(a, "downloaded")

LoaderNext ==
    \/ \E fresh \in BOOLEAN : Mount(fresh)
    \/ Unmount
    \/ ServerPublish
    \/ \E a \in Attempts, kind \in {"throw", "notok", "answer"}, hdr \in BOOLEAN :
          MetaResponse(a, kind, hdr)
    \/ \E a \in Attempts, parsed \in BOOLEAN : MetaJson(a, parsed)
    \/ \E a \in Attempts, kind \in {"throw", "notok", "answer"} :
          RulesResponse(a, kind)
    \/ \E a \in Attempts, parsed \in BOOLEAN : RulesJson(a, parsed)


----------------------------------------------------------------------------
(* Strings: sequences of one-character strings *)

UpperAlpha == <<"A","B","C","D","E","F","G","H","I","J","K","L","M",
                "N","O","P","Q","R","S","T","U","V","W","X","Y","Z">>
LowerAlpha == <<"a","b","c","d","e","f","g","h","i","j","k","l","m",
                "n","o","p","q","r","s","t","u","v","w","x","y","z">>

LowerMap ==
    [c \in {UpperAlpha[i] : i \in 1..26} |->
        LowerAlpha[CHOOSE i \in 1..26 : UpperAlpha[i] = c]]

\* String.prototype.toLowerCase, one character.
LowerChar(c) == IF c \in DOMAIN LowerMap THEN LowerMap[c] ELSE c

\* String.prototype.toLowerCase
ToLowerCase(str) == [i \in 1..Len(str) |-> LowerChar(str[i])]

\* str.slice(from, to) with 0-based from (inclusive) and to (exclusive)
Slice(str, from, to) == SubSeq(str, from + 1, to)

\* String.prototype.indexOf(needle, from): the 0-based position of the
\* first occurrence at or after from, -1 when there is none.
IndexOf(hay, needle, from) ==
    LET hits == {i \in from..(Len(hay) - Len(needle)) :
                    \A k \in 1..Len(needle) : hay[i + k] = needle[k]}
    IN  IF hits = {} THEN -1
        ELSE CHOOSE i \in hits : \A j \in hits : i <= j

\* String.prototype.includes
Includes(hay, needle) == IndexOf(hay, needle, 0) # -1

RECURSIVE Concat(_)
\* The concatenation of a sequence of strings.
Concat(strs) == IF strs = <<>> THEN <<>> ELSE Head(strs) \o Concat(Tail(strs))

RECURSIVE JoinComma(_)
\* Array elements of a JSON text: the strings separated by ",".
JoinComma(strs) ==
    IF strs = <<>> THEN <<>>
    ELSE IF Len(strs) = 1 THEN strs[1]
    ELSE strs[1] \o <<",">> \o JoinComma(Tail(strs))

----------------------------------------------------------------------------
(* Rule documents.  A RuleSection is a record with the keys title and      *)
(* content and, optionally, sections; a RuleBlock is a record with the key *)
(* type and text (paragraph), items (list) or rows (table).                *)

Paragraph(text) == [type |-> "paragraph", text |-> text]
ListBlock(items) == [type |-> "list", items |-> items]
Table(rows) == [type |-> "table", rows |-> rows]
Cell(text) == [text |-> text]

\* `section.sections ?? []`
SectionsOf(section) ==
    IF "sections" \in DOMAIN section THEN section.sections ELSE <<>>

\* JSON.stringify of a string: quoted, with " and \ escaped.
JsonString(str) ==
    <<"\"">> \o
    Concat([i \in 1..Len(str) |->
              IF str[i] \in {"\"", "\\"} THEN <<"\\", str[i]>> ELSE <<str[i]>>])
    \o <<"\"">>

JsonKey(name) == JsonString(name) \o <<":">>

JsonArray(elems) == <<"[">> \o JoinComma(elems) \o <<"]">>

K_title == <<"t","i","t","l","e">>
K_content == <<"c","o","n","t","e","n","t">>
K_sections == <<"s","e","c","t","i","o","n","s">>
K_type == <<"t","y","p","e">>
K_text == <<"t","e","x","t">>
K_items == <<"i","t","e","m","s">>
K_rows == <<"r","o","w","s">>
V_paragraph == <<"p","a","r","a","g","r","a","p","h">>
V_list == <<"l","i","s","t">>
V_table == <<"t","a","b","l","e">>

JsonCell(cell) == <<"{">> \o JsonKey(K_text) \o JsonString(cell.text) \o <<"}">>

\* JSON.stringify of a RuleBlock
JsonBlock(block) ==
    CASE block.type = "paragraph" ->
           <<"{">> \o JsonKey(K_type) \o JsonString(V_paragraph) \o <<",">>
                  \o JsonKey(K_text) \o JsonString(block.text) \o <<"}">>
      [] block.type = "list" ->
           <<"{">> \o JsonKey(K_type) \o JsonString(V_list) \o <<",">>
                  \o JsonKey(K_items)
                  \o JsonArray([i \in 1..Len(block.items) |-> JsonCell(block.items[i])])
                  \o <<"}">>
      [] block.type = "table" ->
           <<"{">> \o JsonKey(K_type) \o JsonString(V_table) \o <<",">>
                  \o JsonKey(K_rows)
                  \o JsonArray([r \in 1..Len(block.rows) |->
                        JsonArray([c \in 1..Len(block.rows[r]) |->
                                      JsonCell(block.rows[r][c])])])
                  \o <<"}">>

RECURSIVE JsonSection(_)
\* JSON.stringify of a RuleSection: its own keys in order, the sections key
\* only when the object has it.
JsonSection(section) ==
    <<"{">> \o JsonKey(K_title) \o JsonString(section.title) \o <<",">>
           \o JsonKey(K_content)
           \o JsonArray([i \in 1..Len(section.content) |-> JsonBlock(section.content[i])])
           \o (IF "sections" \in DOMAIN section
               THEN <<",">> \o JsonKey(K_sections)
                    \o JsonArray([i \in 1..Len(section.sections) |->
                                    JsonSection(section.sections[i])])
               ELSE <<>>)
           \o <<"}">>

----------------------------------------------------------------------------
(* Search filter and match count *)

\* The value null.
Null == [null |-> TRUE]

sectionMatchesQuery(section, query) ==
    IF query = <<>> THEN TRUE
    ELSE Includes(ToLowerCase(JsonSection(section)), query)

RECURSIVE CountLoop_Overlapping(_, _, _, _)
CountLoop_Overlapping(hay, query, idx, count) ==
    LET hit == IndexOf(hay, query, idx)
    IN  IF hit = -1 THEN count
        ELSE CountLoop_Overlapping(hay, query, hit + 1, count + 1)

RECURSIVE CountLoop(_, _, _, _)
\* The while loop of countQueryMatches.
CountLoop(hay, query, idx, count) ==
    LET hit == IndexOf(hay, query, idx)
    IN  IF hit = -1 THEN count
        ELSE CountLoop(hay, query, hit + Len(query), count + 1)

countQueryMatches(section, query) ==
    IF query = <<>> THEN 0
    ELSE CountLoop(ToLowerCase(JsonSection(section)), query, 0, 0)

\* `array.filter(Boolean)`
RECURSIVE FilterBoolean(_)
FilterBoolean(arr) ==
    IF arr = <<>> THEN <<>>
    ELSE IF Head(arr) = Null THEN FilterBoolean(Tail(arr))
    ELSE <<Head(arr)>> \o FilterBoolean(Tail(arr))

RECURSIVE filterSection_KeepsAllChildren(_, _)
filterSection_KeepsAllChildren(section, query) ==
    IF query = <<>> THEN section
    ELSE LET selfMatches == sectionMatchesQuery(section, query)
             kids == SectionsOf(section)
             children == FilterBoolean([i \in 1..Len(kids) |->
                            filterSection_KeepsAllChildren(kids[i], query)])
         IN  IF selfMatches \/ Len(children) > 0
             THEN [title |-> section.title, content |-> section.content,
                   sections |-> kids]
             ELSE Null

RECURSIVE filterSection_NoEmptyQueryReturn(_, _)
filterSection_NoEmptyQueryReturn(section, query) ==
    LET selfMatches == sectionMatchesQuery(section, query)
        kids == SectionsOf(section)
        children == FilterBoolean([i \in 1..Len(kids) |->
                       filterSection_NoEmptyQueryReturn(kids[i], query)])
    IN  IF selfMatches \/ Len(children) > 0
        THEN [title |-> section.title, content |-> section.content,
              sections |-> children]
        ELSE Null

RECURSIVE filterSection(_, _)
filterSection(section, query) ==
    IF query = <<>> THEN section
    ELSE LET selfMatches == sectionMatchesQuery(section, query)
             kids == SectionsOf(section)
             children == FilterBoolean([i \in 1..Len(kids) |->
                                          filterSection(kids[i], query)])
         IN  IF selfMatches \/ Len(children) > 0
             THEN [title |-> section.title, content |-> section.content,
                   sections |-> children]
             ELSE Null

\* ---- inputs ----
S_Fire == <<"F","i","r","e">>
S_aaa == <<"a","a","a">>
S_Ice == <<"I","c","e">>
S_FireText == <<"F","i","r","e"," ","d","a","m","a","g","e",","," ",
                "f","i","r","e"," ","r","e","s","i","s","t","a","n","c","e">>
S_fire == <<"f","i","r","e">>
S_aa == <<"a","a">>
S_e == <<"e">>
S_between == <<"}", ",", "{">>

\* Title and content of the sections the documents are built from.
SectionKinds ==
    { [title |-> S_Fire, content |-> <<>>],
      [title |-> S_aaa, content |-> <<>>],
      [title |-> S_Ice, content |-> <<Paragraph(S_FireText)>>] }

Queries == { <<>>, S_fire, S_aa, S_e, S_between }

RECURSIVE Trees(_)
RECURSIVE Forests(_)
\* The sections with exactly n sections in their subtree (itself included).
\* A section without subsections comes with and without the sections key.
Trees(n) ==
    IF n = 1
    THEN SectionKinds \cup
         { [title |-> k.title, content |-> k.content, sections |-> <<>>] :
             k \in SectionKinds }
    ELSE { [title |-> k.title, content |-> k.content, sections |-> f] :
             k \in SectionKinds, f \in Forests(n - 1) }

\* The non-empty sequences of sections with n sections in all.
Forests(n) ==
    IF n = 0 THEN {}
    ELSE { <<t>> : t \in Trees(n) } \cup
         UNION { { <<t>> \o f : t \in Trees(m), f \in Forests(n - m) } :
                   m \in 1..(n - 1) }

Docs == UNION { Trees(n) : n \in 1..MaxSections }

SearchIdle ==
    /\ doc = Null
    /\ q = <<>>
    /\ rendered = FALSE
    /\ selfMatch = FALSE
    /\ filtered = Null
    /\ fullCount = 0
    /\ shownCount = -1

SearchInit ==
    /\ doc \in Docs
    /\ q \in Queries
    /\ rendered = FALSE
    /\ selfMatch = FALSE
    /\ filtered = Null
    /\ fullCount = 0
    /\ shownCount = -1

\* One render pass of RulesApp with `rules` = [doc]: the memo `filtered`
\* and, for a non-empty query, the count shown in the search-result list.
Render ==
    /\ ~rendered
    /\ rendered' = TRUE
    /\ selfMatch' = sectionMatchesQuery(doc, q)
    /\ filtered' = filterSection(doc, q)
    /\ fullCount' = countQueryMatches(doc, q)
    /\ shownCount' = IF q # <<>> /\ filtered' # Null
                     THEN countQueryMatches(filtered', q)
                     ELSE -1
    /\ UNCHANGED <<doc, q>>
    /\ UNCHANGED nonSearchVars

\* The loader at rest, for the specifications of the render passes.
LoaderIdle ==
    /\ serverVer = 1
    /\ lsMeta = 0
    /\ lsEtag = 0
    /\ lsCache = 0
    /\ rules = 0
    /\ mounted = FALSE
    /\ cur = 0
    /\ att = [a \in Attempts |-> NewFrame]
    /\ returned = [a |-> 0, how |-> "none"]
    /\ unhandled = FALSE

\* No section view yet.
ViewIdle ==
    /\ sectionContent = <<>>
    /\ viewed = FALSE
    /\ content = <<>>

\* No table rendered yet.
BlockIdle ==
    /\ tableBlock = Null
    /\ tableQuery = <<>>
    /\ tableShown = FALSE
    /\ tableView = Null

\* No keyword resolved yet.
KeywordIdle ==
    /\ kwDefs = <<>>
    /\ kwInput = <<>>
    /\ kwResolved = FALSE
    /\ kwMatchers = <<>>
    /\ kwResult = Null

\* No glossary built yet.
GlossaryIdle ==
    /\ glDocs = <<>>
    /\ glAttributes = <<>>
    /\ glSkills = <<>>
    /\ glKeywords = <<>>
    /\ glBuilt = FALSE
    /\ glGlossary = Null

\* No text annotated yet.
AnnotateIdle ==
    /\ anGlossary = Null
    /\ reLastIndex = 0
    /\ anCalls = 0
    /\ anText = <<>>
    /\ anQuery = <<>>
    /\ anNodes = <<>>

\* No keyword table rendered yet.
RowIdle ==
    /\ rowTable = Null
    /\ rowQuery = <<>>
    /\ rowShown = FALSE
    /\ rowGlossary = Null
    /\ rowView = Null

\* rollWithDicePlusTotal not called.
DiceIdle ==
    /\ dicePc = "idle"
    /\ diceOutcome = [state |-> "none"]
    /\ readyOutcome = "none"
    /\ readyListening = FALSE
    /\ readyTimer = FALSE
    /\ rollListening = FALSE
    /\ rollTimer = FALSE
    /\ diceMsgs = 0
    /\ diceLast = Null

\* The annotation engine at rest, and no roll under way.
EngineIdle ==
    /\ KeywordIdle
    /\ GlossaryIdle
    /\ AnnotateIdle
    /\ RowIdle
    /\ DiceIdle

InitSearch ==
    /\ LoaderIdle
    /\ SearchInit
    /\ ViewIdle
    /\ BlockIdle
    /\ EngineIdle

SearchNext == Render

SpecSearch == InitSearch /\ [][SearchNext]_vars

----------------------------------------------------------------------------
(* Properties of the search filter and the match count *)

\* The texts a section carries itself: its title and the texts of its
\* content blocks.
BlockTexts(block) ==
    CASE block.type = "paragraph" -> {block.text}
      [] block.type = "list" -> {block.items[i].text : i \in 1..Len(block.items)}
      [] block.type = "table" ->
           UNION {{block.rows[r][c].text : c \in 1..Len(block.rows[r])} :
                    r \in 1..Len(block.rows)}

OwnTexts(section) ==
    {section.title} \cup
    UNION {BlockTexts(section.content[i]) : i \in 1..Len(section.content)}

RECURSIVE TextOccurs(_, _)
\* query occurs, case-insensitively, in a text of the section or of one of
\* its descendants.
TextOccurs(section, query) ==
    \/ \E t \in OwnTexts(section) : Includes(ToLowerCase(t), query)
    \/ \E i \in 1..Len(SectionsOf(section)) :
          TextOccurs(SectionsOf(section)[i], query)

\* C5: for a non-empty lowercase query, a section self-matches exactly when
\* the query occurs in its own title or content text or in those of a
\* descendant; when it occurs in none of them the section does not
\* self-match and filter returns none.
C5_SelfMatchIffTextOccurs ==
    (rendered /\ q # <<>>)
    => /\ selfMatch <=> TextOccurs(doc, q)
       /\ ~TextOccurs(doc, q) => filtered = Null

RECURSIVE Retained(_, _)
\* A section is retained when it self-matches or one of its children is
\* retained.
Retained(section, query) ==
    \/ sectionMatchesQuery(section, query)
    \/ \E i \in 1..Len(SectionsOf(section)) :
          Retained(SectionsOf(section)[i], query)

RetainedChildren(section, query) ==
    LET Keep(s) == Retained(s, query)
    IN  SelectSeq(SectionsOf(section), Keep)

RECURSIVE KeptPath(_, _, _)
\* out is section with its title unchanged and with exactly its retained
\* children, in their original order, each of them kept the same way.
KeptPath(section, out, query) ==
    /\ out # Null
    /\ out.title = section.title
    /\ "sections" \in DOMAIN out
    /\ LET kept == RetainedChildren(section, query)
       IN  /\ Len(out.sections) = Len(kept)
           /\ \A j \in 1..Len(kept) : KeptPath(kept[j], out.sections[j], query)

\* C6: for a non-empty query, whenever a descendant is retained every
\* ancestor up to the root is retained with its title unchanged, and the
\* child list of every retained section of the output is exactly its
\* retained children in their original order.
C6_RetainedPathKept ==
    (rendered /\ q # <<>>)
    => /\ Retained(doc, q) <=> filtered # Null
       /\ Retained(doc, q) => KeptPath(doc, filtered, q)

\* C6 witness: the only match is in a grandchild; root, child and
\* grandchild are all in the output.
C6_Witness ==
    /\ rendered
    /\ q = S_fire
    /\ doc.title = S_aaa
    /\ Len(SectionsOf(doc)) = 1
    /\ doc.sections[1].title = S_aaa
    /\ Len(SectionsOf(doc.sections[1])) = 1
    /\ doc.sections[1].sections[1].title = S_Fire
    /\ filtered # Null
    /\ filtered.sections[1].sections[1].title = S_Fire

\* C7: filter with the empty query returns the section itself, unchanged,
\* and the section counts as a match.
C7_EmptyQueryIdentity ==
    (rendered /\ q = <<>>) => (filtered = doc /\ selfMatch)

\* C7 witness: the empty query over a section with children and over one
\* without the sections key.
C7_Witness ==
    /\ rendered
    /\ q = <<>>
    /\ Len(SectionsOf(doc)) = 2
    /\ "sections" \notin DOMAIN doc.sections[1]
    /\ filtered = doc

\* The positions where needle occurs in hay.
Hits(hay, needle) ==
    {i \in 0..(Len(hay) - Len(needle)) :
        \A k \in 1..Len(needle) : hay[i + k] = needle[k]}

RECURSIVE Counted(_, _, _)
\* The occurrence at h is counted by a left-to-right scan that resumes at
\* the end of each counted occurrence: no counted occurrence overlaps it
\* from the left.
Counted(hits, len, h) ==
    /\ h \in hits
    /\ \A p \in hits : (p < h /\ h < p + len) => ~Counted(hits, len, p)

\* The document whose only paragraph is "Fire damage, fire resistance".
FireDoc == [title |-> S_Ice, content |-> <<Paragraph(S_FireText)>>]

\* C8: for a non-empty lowercase query the match count of a document is the
\* number of non-overlapping occurrences of the query met by a left-to-right
\* scan of the lowercased serialized document; "fire" over
\* "Fire damage, fire resistance" counts 2.
C8_CountsNonOverlapping ==
    (rendered /\ q # <<>>)
    => /\ LET hay == ToLowerCase(JsonSection(doc))
              hits == Hits(hay, q)
          IN  fullCount = Cardinality({h \in hits : Counted(hits, Len(q), h)})
       /\ (doc = FireDoc /\ q = S_fire) => fullCount = 2

\* C8 witness: "aa" over a document titled "aaa" has two overlapping
\* occurrences in the title and is counted once.
C8_Witness ==
    /\ rendered
    /\ q = S_aa
    /\ doc = [title |-> S_aaa, content |-> <<>>]
    /\ fullCount = 1

\* C9: for a non-empty query, the count displayed for a document of the
\* search-result list is the match count over the full original document,
\* whichever sections filter retained or pruned.
C9_ShownCountIsFullCount ==
    (rendered /\ q # <<>> /\ filtered # Null) => shownCount = fullCount

----------------------------------------------------------------------------
(* Content normalizer *)

\* `table.rows.flat().map((cell) => String(cell.text ?? ""))`
flattenTableText(table) ==
    Concat([r \in 1..Len(table.rows) |->
              [c \in 1..Len(table.rows[r]) |-> table.rows[r][c].text]])

\* `.filter((t) => t.length > 0)`
NonEmpty(texts) ==
    LET Keep(t) == Len(t) > 0
    IN  SelectSeq(texts, Keep)

RECURSIVE LookAhead_AnyParagraph(_, _, _, _)
LookAhead_AnyParagraph(blocks, tableTexts, k, j) ==
    IF k < Len(tableTexts) /\ j < Len(blocks)
    THEN IF blocks[j + 1].type # "paragraph" THEN j
         ELSE LookAhead_AnyParagraph(blocks, tableTexts, k + 1, j + 1)
    ELSE j

RECURSIVE LookAhead(_, _, _, _)
\* The inner for loop of normalizeContent, k and j 0-based: the value of j
\* when the loop ends.
LookAhead(blocks, tableTexts, k, j) ==
    IF k < Len(tableTexts) /\ j < Len(blocks)
    THEN IF blocks[j + 1].type # "paragraph" THEN j
         ELSE IF blocks[j + 1].text # tableTexts[k + 1] THEN j
         ELSE LookAhead(blocks, tableTexts, k + 1, j + 1)
    ELSE j

RECURSIVE NormalizeLoop(_, _, _)
\* The outer for loop of normalizeContent, i 0-based.
NormalizeLoop(blocks, i, out) ==
    IF i >= Len(blocks) THEN out
    ELSE LET block == blocks[i + 1]
             pushed == Append(out, block)
         IN  IF block.type # "table" THEN NormalizeLoop(blocks, i + 1, pushed)
             ELSE LET tableTexts == NonEmpty(flattenTableText(block))
                  IN  IF Len(tableTexts) = 0
                      THEN NormalizeLoop(blocks, i + 1, pushed)
                      ELSE LET j == LookAhead(blocks, tableTexts, 0, i + 1)
                               duplicateCount == j - (i + 1)
                           IN  NormalizeLoop(blocks,
                                   (IF duplicateCount > 0 THEN i + duplicateCount ELSE i) + 1,
                                   pushed)

normalizeContent(blocks) == NormalizeLoop(blocks, 0, <<>>)

\* ---- inputs ----
S_A == <<"A">>
S_B == <<"B">>
S_C == <<"C">>

T_AB == Table(<< <<Cell(S_A), Cell(S_B)>> >>)
T_A_B == Table(<< <<Cell(S_A)>>, <<Cell(<<>>), Cell(S_B)>> >>)
T_Blank == Table(<< <<Cell(<<>>)>> >>)

Blocks ==
    { Paragraph(S_A), Paragraph(S_B), Paragraph(S_C), Paragraph(<<>>),
      ListBlock(<<Cell(S_A)>>), T_AB, T_A_B, T_Blank }

BlockSeqs == UNION { [1..n -> Blocks] : n \in 0..MaxBlocks }

ViewInit ==
    /\ sectionContent \in BlockSeqs
    /\ viewed = FALSE
    /\ content = <<>>

\* RuleSectionView renders a section: `content` is the normalized content.
RuleSectionView ==
    /\ ~viewed
    /\ viewed' = TRUE
    /\ content' = normalizeContent(sectionContent)
    /\ UNCHANGED sectionContent
    /\ UNCHANGED nonViewVars

InitView ==
    /\ LoaderIdle
    /\ SearchIdle
    /\ ViewInit
    /\ BlockIdle
    /\ EngineIdle

ViewNext == RuleSectionView

SpecView == InitView /\ [][ViewNext]_vars

----------------------------------------------------------------------------
(* Properties of the content normalizer *)

\* The block at position j (1-based) repeats a cell of an earlier table: a
\* table with non-empty cell texts sits at some i < j, at most that many
\* blocks back, and every block from i + 1 to j is a paragraph whose text is
\* the cell text of the same rank.
EchoesTable(blocks, j) ==
    \E i \in 1..(j - 1) :
       /\ blocks[i].type = "table"
       /\ LET cells == NonEmpty(flattenTableText(blocks[i]))
          IN  /\ j - i <= Len(cells)
              /\ \A m \in (i + 1)..j :
                    /\ blocks[m].type = "paragraph"
                    /\ blocks[m].text = cells[m - i]

RECURSIVE Without(_, _, _)
\* blocks from position j on, minus the positions in gone.
Without(blocks, gone, j) ==
    IF j > Len(blocks) THEN <<>>
    ELSE (IF j \in gone THEN <<>> ELSE <<blocks[j]>>) \o Without(blocks, gone, j + 1)

\* C10: normalize returns the blocks in their original order minus, after
\* each table with a non-empty cell, exactly the longest run of immediately
\* following paragraphs equal position by position to the table's non-empty
\* cell texts in row-major order; cells A, B followed by paragraphs A, B, C
\* lose the first two paragraphs, and a mismatch at the first paragraph
\* removes nothing.
C10_RemovesTableEcho ==
    viewed
    => /\ content = Without(sectionContent,
                            {j \in 1..Len(sectionContent) : EchoesTable(sectionContent, j)},
                            1)
       /\ (sectionContent = <<T_AB, Paragraph(S_A), Paragraph(S_B), Paragraph(S_C)>>
              => content = <<T_AB, Paragraph(S_C)>>)
       /\ (sectionContent = <<T_AB, Paragraph(S_B), Paragraph(S_A)>>
              => content = sectionContent)

\* C10 witness: cells A, B followed by paragraphs A, B, C.
C10_Witness ==
    /\ viewed
    /\ sectionContent = <<T_AB, Paragraph(S_A), Paragraph(S_B), Paragraph(S_C)>>
    /\ content = <<T_AB, Paragraph(S_C)>>



----------------------------------------------------------------------------
(* Keyword matcher (weaponKeywords.ts) *)

Digits == {"0","1","2","3","4","5","6","7","8","9"}
LowerSet == {LowerAlpha[i] : i \in 1..26}
UpperSet == {UpperAlpha[i] : i \in 1..26}

\* \s of a regular expression, and the characters String.prototype.trim removes
IsSpace(c) == c \in {" ", "\t", "\n", "\r"}

\* \w of a regular expression
IsWordChar(c) == c \in LowerSet \cup UpperSet \cup Digits \cup {"_"}

\* [A-Za-z0-9]
IsAlnum(c) == c \in LowerSet \cup UpperSet \cup Digits

\* . of a regular expression: any character but a line terminator
NoLineTerminator(str) == \A i \in 1..Len(str) : str[i] \notin {"\n", "\r"}

\* String.prototype.trim
Trim(str) ==
    LET keep == {i \in 1..Len(str) : ~IsSpace(str[i])}
    IN  IF keep = {} THEN <<>>
        ELSE SubSeq(str, CHOOSE i \in keep : \A j \in keep : i <= j,
                         CHOOSE i \in keep : \A j \in keep : i >= j)

StartsWith(str, prefix) ==
    Len(prefix) <= Len(str) /\ SubSeq(str, 1, Len(prefix)) = prefix

EndsWith(str, suffix) ==
    Len(suffix) <= Len(str)
    /\ SubSeq(str, Len(str) - Len(suffix) + 1, Len(str)) = suffix

RECURSIVE HyphenateRuns(_, _, _)
\* `.replace(/<class>+/g, "-")`, the class given by inClass: every maximal
\* run of characters of the class becomes one hyphen.
HyphenateRuns(str, inClass, i) ==
    IF i > Len(str) THEN <<>>
    ELSE IF inClass[str[i]]
         THEN (IF i > 1 /\ inClass[str[i - 1]] THEN <<>> ELSE <<"-">>)
              \o HyphenateRuns(str, inClass, i + 1)
         ELSE <<str[i]>> \o HyphenateRuns(str, inClass, i + 1)

\* `.replace(/^-+|-+$/g, "")`
StripHyphens(str) ==
    LET keep == {i \in 1..Len(str) : str[i] # "-"}
    IN  IF keep = {} THEN <<>>
        ELSE SubSeq(str, CHOOSE i \in keep : \A j \in keep : i <= j,
                         CHOOSE i \in keep : \A j \in keep : i >= j)

\* The characters of a string, as a set.
CharsOf(str) == {str[i] : i \in 1..Len(str)}

\* slugify without its second replace.
slugify_KeepsEdgeHyphens(value) ==
    LET lower == ToLowerCase(value)
        nonAlnum == [c \in CharsOf(lower) |-> c \notin LowerSet \cup Digits]
    IN  HyphenateRuns(lower, nonAlnum, 1)

slugify(value) ==
    LET lower == ToLowerCase(value)
        nonAlnum == [c \in CharsOf(lower) |-> c \notin LowerSet \cup Digits]
    IN  StripHyphens(HyphenateRuns(lower, nonAlnum, 1))

KEYWORD_ANCHOR == <<"w","e","a","p","o","n","-","k","e","y","w","o","r","d","s">>
AnchorPrefix == <<"w","e","a","p","o","n","-","k","e","y","w","o","r","d","-">>
S_parenX == <<"(","X",")">>
S_spaceX == <<" ","X">>

\* buildMatcher: the compiled pattern as its parts.  kind "paren" is
\* ^pre\((.+)\)post$, kind "space" is ^pre\s+(.+)post$, kind "exact" is
\* ^pre$; all three with the i flag.  String.prototype.replace with a string
\* pattern replaces the first occurrence only.
buildMatcher(defName) ==
    LET trimmed == Trim(defName)
        p == IndexOf(trimmed, S_parenX, 0)
        s == IndexOf(trimmed, S_spaceX, 0)
    IN  IF p # -1
        THEN [kind |-> "paren", pre |-> Slice(trimmed, 0, p),
              post |-> Slice(trimmed, p + 3, Len(trimmed)), hasParam |-> TRUE]
        ELSE IF s # -1
        THEN [kind |-> "space", pre |-> Slice(trimmed, 0, s),
              post |-> Slice(trimmed, s + 2, Len(trimmed)), hasParam |-> TRUE]
        ELSE [kind |-> "exact", pre |-> trimmed, post |-> <<>>, hasParam |-> FALSE]

\* text.match without the i flag.
RegexMatch_CaseSensitive(text, m) ==
    LET lowText == text
        pre == m.pre
        post == m.post
    IN  CASE m.kind = "exact" ->
               IF lowText = pre THEN << <<>> >> ELSE <<>>
          [] m.kind = "paren" ->
               LET from == Len(pre) + 2
                   to == Len(text) - Len(post) - 1
                   cap == SubSeq(text, from, to)
               IN  IF /\ Len(text) >= Len(pre) + Len(post) + 3
                      /\ StartsWith(lowText, pre \o <<"(">>)
                      /\ EndsWith(lowText, <<")">> \o post)
                      /\ NoLineTerminator(cap)
                   THEN <<cap>> ELSE <<>>
          [] m.kind = "space" ->
               LET from == Len(pre) + 1
                   to == Len(text) - Len(post)
                   mid == SubSeq(text, from, to)
                   \* the numbers of leading whitespace characters \s+ can take
                   takes == {n \in 1..(Len(mid) - 1) :
                               /\ \A i \in 1..n : IsSpace(mid[i])
                               /\ NoLineTerminator(SubSeq(mid, n + 1, Len(mid)))}
               IN  IF /\ Len(text) >= Len(pre) + Len(post) + 2
                      /\ StartsWith(lowText, pre)
                      /\ EndsWith(lowText, post)
                      /\ takes # {}
                   THEN <<SubSeq(mid, (CHOOSE n \in takes : \A k \in takes : n >= k) + 1,
                                 Len(mid))>>
                   ELSE <<>>

\* `text.match(def.regex)`: <<>> when there is no match, else <<match[1]>>
\* (the capture, <<>> as capture for a pattern without one).
RegexMatch(text, m) ==
    LET lowText == ToLowerCase(text)
        pre == ToLowerCase(m.pre)
        post == ToLowerCase(m.post)
    IN  CASE m.kind = "exact" ->
               IF lowText = pre THEN << <<>> >> ELSE <<>>
          [] m.kind = "paren" ->
               LET from == Len(pre) + 2
                   to == Len(text) - Len(post) - 1
                   cap == SubSeq(text, from, to)
               IN  IF /\ Len(text) >= Len(pre) + Len(post) + 3
                      /\ StartsWith(lowText, pre \o <<"(">>)
                      /\ EndsWith(lowText, <<")">> \o post)
                      /\ NoLineTerminator(cap)
                   THEN <<cap>> ELSE <<>>
          [] m.kind = "space" ->
               LET from == Len(pre) + 1
                   to == Len(text) - Len(post)
                   mid == SubSeq(text, from, to)
                   \* the numbers of leading whitespace characters \s+ can take
                   takes == {n \in 1..(Len(mid) - 1) :
                               /\ \A i \in 1..n : IsSpace(mid[i])
                               /\ NoLineTerminator(SubSeq(mid, n + 1, Len(mid)))}
               IN  IF /\ Len(text) >= Len(pre) + Len(post) + 2
                      /\ StartsWith(lowText, pre)
                      /\ EndsWith(lowText, post)
                      /\ takes # {}
                   THEN <<SubSeq(mid, (CHOOSE n \in takes : \A k \in takes : n >= k) + 1,
                                 Len(mid))>>
                   ELSE <<>>

normalizeParam(param) == Trim(param)

RECURSIVE GetSubstitution(_, _, _, _)
\* The expansion of a replacement string for the match "X" at the 1-based
\* position of str, from the k-th character of the replacement on: $$ is a
\* dollar sign, $& the matched text, $` the text before the match and $' the
\* text after it.  The pattern has no capture group, so $1..$99 and $<
\* stand for themselves, as does any other $.
GetSubstitution(replacement, str, position, k) ==
    IF k > Len(replacement) THEN <<>>
    ELSE IF replacement[k] = "$" /\ k < Len(replacement)
         THEN CASE replacement[k + 1] = "$" ->
                     <<"$">> \o GetSubstitution(replacement, str, position, k + 2)
                [] replacement[k + 1] = "&" ->
                     <<str[position]>> \o GetSubstitution(replacement, str, position, k + 2)
                [] replacement[k + 1] = "`" ->
                     SubSeq(str, 1, position - 1)
                     \o GetSubstitution(replacement, str, position, k + 2)
                [] replacement[k + 1] = "'" ->
                     SubSeq(str, position + 1, Len(str))
                     \o GetSubstitution(replacement, str, position, k + 2)
                [] OTHER ->
                     <<"$">> \o GetSubstitution(replacement, str, position, k + 1)
         ELSE <<replacement[k]>> \o GetSubstitution(replacement, str, position, k + 1)

RECURSIVE ReplaceWordX(_, _, _)
\* `description.replace(/\bX\b/g, replacement)`, from position i on.
ReplaceWordX(description, replacement, i) ==
    IF i > Len(description) THEN <<>>
    ELSE IF /\ description[i] = "X"
            /\ (i = 1 \/ ~IsWordChar(description[i - 1]))
            /\ (i = Len(description) \/ ~IsWordChar(description[i + 1]))
         THEN GetSubstitution(replacement, description, i, 1)
              \o ReplaceWordX(description, replacement, i + 1)
         ELSE <<description[i]>> \o ReplaceWordX(description, replacement, i + 1)

\* The weapon keyword definitions (data/weaponKeywords).
WEAPON_KEYWORDS ==
    << [name |-> <<"R","e","a","c","h"," ","(","X",")">>, description |-> <<"R","a","n","g","e"," ","X",".">>],
       [name |-> <<"H","e","a","v","y">>, description |-> <<"S","l","o","w",".">>] >>

\* `defs.map((k) => ...)`: the matchers of a list of definitions.
MatchersOf(defs) ==
    [i \in 1..Len(defs) |->
        LET m == buildMatcher(defs[i].name)
        IN  [name |-> defs[i].name,
             description |-> defs[i].description,
             regex |-> m, hasParam |-> m.hasParam]]

KEYWORD_MATCHERS == MatchersOf(WEAPON_KEYWORDS)

\* The for loop of resolveWeaponKeyword: the index of the first matcher that
\* matches the trimmed text, 0 when none does.
FirstMatch(matchers, text) ==
    LET matching == {i \in 1..Len(matchers) :
                        RegexMatch(text, matchers[i].regex) # <<>>}
    IN  IF matching = {} THEN 0
        ELSE CHOOSE i \in matching : \A j \in matching : i <= j

\* resolveWeaponKeyword over the given matchers: Null, or the match of the
\* first matcher that matches.
ResolveIn(matchers, keyword) ==
    LET text == Trim(keyword)
        slug == slugify(text)
        first == IF text = <<>> THEN 0 ELSE FirstMatch(matchers, text)
    IN  IF first = 0 THEN Null
        ELSE LET def == matchers[first]
                 param == IF def.hasParam
                          THEN normalizeParam(RegexMatch(text, def.regex)[1])
                          ELSE <<>>
             IN  [label |-> text,
                  description |->
                     IF def.hasParam
                     THEN ReplaceWordX(def.description,
                                       IF param # <<>> THEN param ELSE <<"X">>, 1)
                     ELSE def.description,
                  anchor |-> IF slug # <<>> THEN AnchorPrefix \o slug
                             ELSE KEYWORD_ANCHOR]

\* resolveWeaponKeyword, with the matchers of the module.
resolveWeaponKeyword(keyword) == ResolveIn(KEYWORD_MATCHERS, keyword)

RECURSIVE SplitComma(_, _)
\* `text.split(",")`, cur the part being read.
SplitComma(text, part) ==
    IF text = <<>> THEN <<part>>
    ELSE IF Head(text) = "," THEN <<part>> \o SplitComma(Tail(text), <<>>)
    ELSE SplitComma(Tail(text), Append(part, Head(text)))

splitKeywordList(text) ==
    LET parts == SplitComma(text, <<>>)
    IN  NonEmpty([i \in 1..Len(parts) |-> Trim(parts[i])])

----------------------------------------------------------------------------
(* Glossary (buildAnchorMaps, buildGlossary).  A Map is the sequence of its *)
(* entries [key, value] in insertion order.                                 *)

MapHas(map, key) == \E i \in 1..Len(map) : map[i].key = key

MapGet(map, key) == map[CHOOSE i \in 1..Len(map) : map[i].key = key].value

\* Map.prototype.set: a new key is added last, an old key keeps its place.
MapSet(map, key, value) ==
    IF MapHas(map, key)
    THEN [i \in 1..Len(map) |->
            IF map[i].key = key THEN [key |-> key, value |-> value] ELSE map[i]]
    ELSE Append(map, [key |-> key, value |-> value])

\* `if (!map.has(key)) map.set(key, value)`
MapSetIfAbsent(map, key, value) ==
    IF MapHas(map, key) THEN map ELSE MapSet(map, key, value)

MapKeys(map) == [i \in 1..Len(map) |-> map[i].key]

\* getSectionId: `section.slug || ...`, a section without the field slug
\* having none.
getSectionId(section) ==
    LET lower == ToLowerCase(section.title)
    IN  IF "slug" \in DOMAIN section /\ section.slug # <<>> THEN section.slug
        ELSE HyphenateRuns(lower, [c \in CharsOf(lower) |-> IsSpace(c)], 1)

RECURSIVE collectSectionTitles(_, _)
\* The sections of a subtree in document order, each with its depth.
collectSectionTitles(section, depth) ==
    <<[section |-> section, level |-> depth]>> \o
    Concat([i \in 1..Len(SectionsOf(section)) |->
              collectSectionTitles(SectionsOf(section)[i], depth + 1)])

S_keyword == <<"k","e","y","w","o","r","d">>

blacklist == { <<"t","h","e">>, <<"a","n","d">>, <<"o","r">>, <<"o","f">>, <<"i","n">>, <<"t","o">>, <<"a">>, <<"a","n">> }

\* isKeywordTable of buildAnchorMaps and renderBlock, rows not empty.
IsKeywordTable(rows) ==
    /\ \E c \in 1..Len(rows[1]) : Includes(ToLowerCase(rows[1][c].text), S_keyword)
    /\ Len(rows[1]) >= 2

\* `row[0]?.text ?? ""` turned into a slug
RowSlug(row) == slugify(IF Len(row) > 0 THEN row[1].text ELSE <<>>)

\* The anchors a table block registers, in row order.
BlockAnchors(block) ==
    IF block.type # "table" THEN <<>>
    ELSE IF Len(block.rows) = 0 THEN <<>>
    ELSE IF ~IsKeywordTable(block.rows) THEN <<>>
    ELSE LET slugs == NonEmpty([r \in 1..(Len(block.rows) - 1) |->
                                  RowSlug(block.rows[r + 1])])
         IN  [i \in 1..Len(slugs) |-> AnchorPrefix \o slugs[i]]

RECURSIVE walk(_)
\* The anchors `walk` registers for a section, in the order it meets them.
walk(sec) ==
    Concat([i \in 1..Len(sec.content) |-> BlockAnchors(sec.content[i])]) \o
    Concat([i \in 1..Len(SectionsOf(sec)) |-> walk(SectionsOf(sec)[i])])

RECURSIVE AddCandidates(_, _, _, _)
\* The loop over the sections of one document, from the i-th on.
AddCandidates(candidates, sections, docSlug, i) ==
    IF i > Len(sections) THEN candidates
    ELSE LET section == sections[i].section
             title == Trim(section.title)
             entry == [id |-> getSectionId(section), docSlug |-> docSlug,
                       depth |-> sections[i].level]
             list == IF MapHas(candidates, title) THEN MapGet(candidates, title)
                     ELSE <<>>
         IN  IF title = <<>> \/ Len(title) < 4 \/ ToLowerCase(title) \in blacklist
             THEN AddCandidates(candidates, sections, docSlug, i + 1)
             ELSE AddCandidates(MapSet(candidates, title, Append(list, entry)),
                                sections, docSlug, i + 1)

RECURSIVE AddAnchors(_, _, _, _)
AddAnchors(anchorToDoc, anchors, docSlug, i) ==
    IF i > Len(anchors) THEN anchorToDoc
    ELSE AddAnchors(MapSetIfAbsent(anchorToDoc, anchors[i], docSlug),
                    anchors, docSlug, i + 1)

RECURSIVE DocLoop(_, _, _, _)
\* The loop of buildAnchorMaps over the documents: the candidates and the
\* keyword anchors after the documents from the i-th on.
DocLoop(docs, i, candidates, anchorToDoc) ==
    IF i > Len(docs) THEN [candidates |-> candidates, anchorToDoc |-> anchorToDoc]
    ELSE LET docSlug == getSectionId(docs[i])
         IN  DocLoop(docs, i + 1,
                     AddCandidates(candidates, collectSectionTitles(docs[i], 0),
                                   docSlug, 1),
                     AddAnchors(anchorToDoc, walk(docs[i]), docSlug, 1))

RECURSIVE ChooseLinks_FirstSeen(_, _, _, _)
\* The loop over the candidate titles, the first candidate seen chosen
\* whatever its depth.
ChooseLinks_FirstSeen(candidates, i, linkTerms, anchorToDoc) ==
    IF i > Len(candidates)
    THEN [linkTerms |-> linkTerms, anchorToDoc |-> anchorToDoc]
    ELSE LET list == candidates[i].value
             minDepth == CHOOSE d \in {list[k].depth : k \in 1..Len(list)} :
                            \A k \in 1..Len(list) : d <= list[k].depth
             AtMin(c) == c.depth = minDepth
             sameLevel == SelectSeq(list, AtMin)
             chosen == list[1]
         IN  ChooseLinks_FirstSeen(candidates, i + 1,
                 MapSet(linkTerms, candidates[i].key,
                        [id |-> chosen.id, docSlug |-> chosen.docSlug,
                         sameLevelCount |-> Len(sameLevel)]),
                 MapSetIfAbsent(anchorToDoc, chosen.id, chosen.docSlug))

RECURSIVE ChooseLinks(_, _, _, _)
\* The loop of buildAnchorMaps over the candidate titles.
ChooseLinks(candidates, i, linkTerms, anchorToDoc) ==
    IF i > Len(candidates)
    THEN [linkTerms |-> linkTerms, anchorToDoc |-> anchorToDoc]
    ELSE LET list == candidates[i].value
             minDepth == CHOOSE d \in {list[k].depth : k \in 1..Len(list)} :
                            \A k \in 1..Len(list) : d <= list[k].depth
             AtMin(c) == c.depth = minDepth
             sameLevel == SelectSeq(list, AtMin)
             chosen == sameLevel[1]
         IN  ChooseLinks(candidates, i + 1,
                 MapSet(linkTerms, candidates[i].key,
                        [id |-> chosen.id, docSlug |-> chosen.docSlug,
                         sameLevelCount |-> Len(sameLevel)]),
                 MapSetIfAbsent(anchorToDoc, chosen.id, chosen.docSlug))

buildAnchorMaps(docs) ==
    LET found == DocLoop(docs, 1, <<>>, <<>>)
    IN  ChooseLinks(found.candidates, 1, <<>>, found.anchorToDoc)

\* The attribute and skill tooltips (data/skillTooltips), as entries.
ATTRIBUTE_TOOLTIPS == << [key |-> <<"M","i","g","h","t">>, value |-> <<"P","o","w","e","r",".">>] >>
SKILL_TOOLTIPS == << [key |-> <<"A","i","m">>, value |-> <<"S","h","o","o","t","i","n","g",".">>] >>

RECURSIVE SetAll(_, _, _)
\* `entries.forEach(([key, desc]) => { if (key && desc) map.set(key, desc) })`
SetAll(map, entries, i) ==
    IF i > Len(entries) THEN map
    ELSE SetAll(IF entries[i].key # <<>> /\ entries[i].value # <<>>
                THEN MapSet(map, entries[i].key, entries[i].value)
                ELSE map,
                entries, i + 1)

RECURSIVE Unique(_, _)
\* `Array.from(new Set(keys))`
Unique(keys, seen) ==
    IF keys = <<>> THEN <<>>
    ELSE IF Head(keys) \in seen THEN Unique(Tail(keys), seen)
    ELSE <<Head(keys)>> \o Unique(Tail(keys), seen \cup {Head(keys)})

\* The terms left in insertion order.
SortByLength_Unsorted(terms) == terms

RECURSIVE SortByLength(_)
\* `.sort((a, b) => b.length - a.length)`: longest first, stable.
SortByLength(terms) ==
    IF terms = <<>> THEN <<>>
    ELSE LET longest == CHOOSE n \in {Len(terms[i]) : i \in 1..Len(terms)} :
                           \A i \in 1..Len(terms) : n >= Len(terms[i])
             IsLongest(t) == Len(t) = longest
             IsShorter(t) == Len(t) < longest
         IN  SelectSeq(terms, IsLongest) \o SortByLength(SelectSeq(terms, IsShorter))

\* buildGlossary over the given lookup tables.  regex is Null or the
\* compiled alternation: its terms in alternation order (the word
\* boundaries follow from each term's ends).
GlossaryFrom(attributes, skills, keywords, docs) ==
    LET maps == buildAnchorMaps(docs)
        tooltipTerms ==
            SetAll(SetAll(SetAll(<<>>, attributes, 1), skills, 1),
                   [i \in 1..Len(keywords) |->
                      [key |-> keywords[i].name,
                       value |-> keywords[i].description]], 1)
        terms == SortByLength(Unique(MapKeys(tooltipTerms) \o MapKeys(maps.linkTerms), {}))
    IN  [regex |-> IF terms = <<>> THEN Null ELSE [terms |-> terms],
         linkTerms |-> maps.linkTerms,
         tooltipTerms |-> tooltipTerms,
         anchorToDoc |-> maps.anchorToDoc]

\* buildGlossary, with the lookup tables of the module.
buildGlossary(docs) ==
    GlossaryFrom(ATTRIBUTE_TOOLTIPS, SKILL_TOOLTIPS, WEAPON_KEYWORDS, docs)

----------------------------------------------------------------------------
(* Text annotation (highlightText, renderGlossaryText, renderKeywordText,   *)
(* renderBlock).  A part is a piece of text, marked or not; a node is a     *)
(* record with its kind ("text", "tooltip", "link", "keyword") and parts.   *)

RECURSIVE HighlightLoop_DropsTail(_, _, _, _)
\* The while loop without the push of the text after the last hit.
HighlightLoop_DropsTail(text, query, i, parts) ==
    IF i >= Len(text) THEN parts
    ELSE LET hit == IndexOf(ToLowerCase(text), ToLowerCase(query), i)
         IN  IF hit = -1
             THEN parts
             ELSE HighlightLoop_DropsTail(text, query, hit + Len(query),
                    (IF hit > i
                     THEN Append(parts, [mark |-> FALSE, text |-> Slice(text, i, hit)])
                     ELSE parts)
                    \o <<[mark |-> TRUE, text |-> Slice(text, hit, hit + Len(query))]>>)

RECURSIVE HighlightLoop(_, _, _, _)
\* The while loop of highlightText, i 0-based.
HighlightLoop(text, query, i, parts) ==
    IF i >= Len(text) THEN parts
    ELSE LET hit == IndexOf(ToLowerCase(text), ToLowerCase(query), i)
         IN  IF hit = -1
             THEN Append(parts, [mark |-> FALSE, text |-> Slice(text, i, Len(text))])
             ELSE HighlightLoop(text, query, hit + Len(query),
                    (IF hit > i
                     THEN Append(parts, [mark |-> FALSE, text |-> Slice(text, i, hit)])
                     ELSE parts)
                    \o <<[mark |-> TRUE, text |-> Slice(text, hit, hit + Len(query))]>>)

highlightText(text, query) ==
    IF query = <<>> THEN <<[mark |-> FALSE, text |-> text]>>
    ELSE HighlightLoop(text, query, 0, <<>>)

TextNode(text, query) == [kind |-> "text", parts |-> highlightText(text, query)]

\* One alternative of the glossary pattern matches raw at the 0-based
\* position p: the literal term, with \b at an end that is alphanumeric.
TermMatchesAt(raw, term, p) ==
    /\ p + Len(term) <= Len(raw)
    /\ Slice(raw, p, p + Len(term)) = term
    /\ IsAlnum(term[1]) => (p = 0 \/ ~IsWordChar(raw[p]))
    /\ IsAlnum(term[Len(term)])
          => (p + Len(term) = Len(raw) \/ ~IsWordChar(raw[p + Len(term) + 1]))

\* `regex.exec(raw)` from lastIndex: Null, or the leftmost match, the first
\* alternative that matches there.
RegexExec(regex, raw, lastIndex) ==
    LET at == {p \in lastIndex..Len(raw) :
                 \E t \in 1..Len(regex.terms) : TermMatchesAt(raw, regex.terms[t], p)}
    IN  IF at = {} THEN Null
        ELSE LET p == CHOOSE x \in at : \A y \in at : x <= y
                 t == CHOOSE x \in 1..Len(regex.terms) :
                        /\ TermMatchesAt(raw, regex.terms[x], p)
                        /\ \A y \in 1..(x - 1) : ~TermMatchesAt(raw, regex.terms[y], p)
             IN  [index |-> p, text |-> regex.terms[t]]

\* lastIndex of the pattern after an exec that found nothing, with the g
\* flag left where it was.
ExecLastIndex_KeepsOnFailure(regex, raw, lastIndex) ==
    LET match == RegexExec(regex, raw, lastIndex)
    IN  IF match = Null THEN lastIndex ELSE match.index + Len(match.text)

\* lastIndex of the pattern after `regex.exec(raw)` from lastIndex: the end
\* of the match, 0 when there is none.
ExecLastIndex(regex, raw, lastIndex) ==
    LET match == RegexExec(regex, raw, lastIndex)
    IN  IF match = Null THEN 0 ELSE match.index + Len(match.text)

RECURSIVE GlossaryLoop(_, _, _, _, _, _)
\* The while loop of renderGlossaryText and the code after it: the nodes,
\* and the lastIndex the pattern is left with.  reLast is the pattern's
\* lastIndex, lastIndex the local variable of that name.
GlossaryLoop(raw, query, glossary, reLast, lastIndex, nodes) ==
    LET match == RegexExec(glossary.regex, raw, reLast)
        reNext == ExecLastIndex(glossary.regex, raw, reLast)
    IN  IF match = Null
        THEN [nodes |-> IF lastIndex < Len(raw)
                        THEN Append(nodes, TextNode(Slice(raw, lastIndex, Len(raw)), query))
                        ELSE nodes,
              reLast |-> reNext]
        ELSE LET start == match.index
                 end == start + Len(match.text)
                 term == match.text
                 before == IF start > lastIndex
                           THEN Append(nodes, TextNode(Slice(raw, lastIndex, start), query))
                           ELSE nodes
                 node ==
                    IF MapHas(glossary.tooltipTerms, term)
                    THEN [kind |-> "tooltip",
                          title |-> MapGet(glossary.tooltipTerms, term),
                          parts |-> highlightText(term, query)]
                    ELSE IF MapHas(glossary.linkTerms, term)
                    THEN [kind |-> "link",
                          link |-> MapGet(glossary.linkTerms, term),
                          parts |-> highlightText(term, query)]
                    ELSE TextNode(term, query)
             IN  GlossaryLoop(raw, query, glossary, reNext, end, Append(before, node))

\* renderGlossaryText called with the pattern's lastIndex at reLast.
RenderGlossaryFrom(text, query, glossary, reLast) ==
    IF glossary.regex = Null
    THEN [nodes |-> <<TextNode(text, query)>>, reLast |-> reLast]
    ELSE GlossaryLoop(text, query, glossary, reLast, 0, <<>>)

\* renderGlossaryText called with the pattern's lastIndex at 0, as a new
\* pattern has it.
renderGlossaryText(text, query, glossary) ==
    RenderGlossaryFrom(text, query, glossary, 0).nodes

\* The keyword links of renderKeywordText, one per part.
KeywordLinks(parts, query, glossary) ==
    [idx \in 1..Len(parts) |->
        LET info == resolveWeaponKeyword(parts[idx])
        IN  [kind |-> "keyword",
             title |-> info.description,
             anchor |-> info.anchor,
             docSlug |-> IF MapHas(glossary.anchorToDoc, info.anchor)
                         THEN MapGet(glossary.anchorToDoc, info.anchor)
                         ELSE Null,
             parts |-> highlightText(parts[idx], query),
             comma |-> idx < Len(parts)]]

renderKeywordText(text, query, glossary) ==
    LET parts == splitKeywordList(text)
    IN  IF Len(parts) = 0 THEN <<TextNode(text, query)>>
        ELSE IF \E i \in 1..Len(parts) : resolveWeaponKeyword(parts[i]) = Null
        THEN <<TextNode(text, query)>>
        ELSE KeywordLinks(parts, query, glossary)

\* renderBlock for a table block with rows: the header cells, and for each
\* body row its id (Null = none) and the nodes of its cells.
renderBlock(block, query, glossary) ==
    LET rows == block.rows
        isKeywordTable == IsKeywordTable(rows)
    IN  [head |-> [c \in 1..Len(rows[1]) |-> highlightText(rows[1][c].text, query)],
         body |-> [r \in 1..(Len(rows) - 1) |->
                     [id |-> IF isKeywordTable
                             THEN AnchorPrefix \o RowSlug(rows[r + 1])
                             ELSE Null,
                      cells |-> [c \in 1..Len(rows[r + 1]) |->
                                   IF isKeywordTable
                                   THEN renderKeywordText(rows[r + 1][c].text, query, glossary)
                                   ELSE renderGlossaryText(rows[r + 1][c].text, query, glossary)]]]]

\* ---- inputs ----
S_Keyword == <<"K","e","y","w","o","r","d">>
S_Name == <<"N","a","m","e">>
S_Effect == <<"E","f","f","e","c","t">>
S_Heavy == <<"H","e","a","v","y">>
S_Reach3 == <<"R","e","a","c","h"," ","(","3",")">>
S_Armor == <<"A","r","m","o","r">>
S_foo == <<"f","o","o">>
S_ea == <<"e","a">>

\* The document set the glossary is built from: a keyword table with a body
\* row for "Reach (3)", and a subsection titled "Armor".
GlossaryDocs ==
    << [title |-> <<"W","e","a","p","o","n","s">>,
        content |-> << Table(<< <<Cell(S_Keyword), Cell(S_Effect)>>,
                              <<Cell(S_Reach3), Cell(<<"F","a","r",".">>)>> >>) >>,
        sections |-> << [title |-> S_Armor, content |-> <<>>] >>] >>

\* `glossary` of RulesApp: useMemo(() => buildGlossary(rules), [rules])
rulesGlossary == buildGlossary(GlossaryDocs)

Tokens == { S_Heavy, S_Reach3, S_Armor, S_foo }

RECURSIVE JoinCommaSpace(_)
JoinCommaSpace(strs) ==
    IF strs = <<>> THEN <<>>
    ELSE IF Len(strs) = 1 THEN strs[1]
    ELSE strs[1] \o <<",", " ">> \o JoinCommaSpace(Tail(strs))

\* The cell texts: up to MaxTokens tokens separated by ", ".
CellTexts ==
    { JoinCommaSpace(ts) : ts \in UNION { [1..n -> Tokens] : n \in 0..MaxTokens } }

\* The tables rendered: a keyword table and a plain one, each with one body
\* row of one cell.
TableBlocks ==
    { Table(<< <<Cell(h), Cell(S_Effect)>>, <<Cell(t)>> >>) :
        h \in {S_Keyword, S_Name}, t \in CellTexts }

BlockInit ==
    /\ tableBlock \in TableBlocks
    /\ tableQuery \in { <<>>, S_ea }
    /\ tableShown = FALSE
    /\ tableView = Null

\* RuleSectionView renders one table block of its content.
RenderBlock ==
    /\ ~tableShown
    /\ tableShown' = TRUE
    /\ tableView' = renderBlock(tableBlock, tableQuery, rulesGlossary)
    /\ UNCHANGED <<tableBlock, tableQuery>>
    /\ UNCHANGED nonBlockVars

InitBlock ==
    /\ LoaderIdle
    /\ SearchIdle
    /\ ViewIdle
    /\ BlockInit
    /\ EngineIdle

BlockNext == RenderBlock

SpecBlock == InitBlock /\ [][BlockNext]_vars

----------------------------------------------------------------------------
(* Properties of table rendering *)

\* C1: a cell of a keyword table is rendered as one keyword link per
\* comma-separated token exactly when every token resolves; when a token
\* fails to resolve the whole cell is rendered by the glossary annotator,
\* so that glossary terms in it keep their tooltip or link.
C1_KeywordCellLinksOrGlossary ==
    (tableShown /\ IsKeywordTable(tableBlock.rows))
    => \A r \in 1..Len(tableView.body) :
         \A c \in 1..Len(tableBlock.rows[r + 1]) :
            LET text == tableBlock.rows[r + 1][c].text
                parts == splitKeywordList(text)
                nodes == tableView.body[r].cells[c]
            IN  parts # <<>>
                => IF \A i \in 1..Len(parts) : resolveWeaponKeyword(parts[i]) # Null
                   THEN nodes = KeywordLinks(parts, tableQuery, rulesGlossary)
                   ELSE nodes = renderGlossaryText(text, tableQuery, rulesGlossary)

----------------------------------------------------------------------------
(* Keyword resolution: resolveWeaponKeyword over given definitions *)

\* The definition lists the matchers are built from.
DefLists ==
    { << [name |-> <<"R","e","a","c","h"," ","(","X",")">>, description |-> <<"R","a","n","g","e"," ","X",","," ","M","A","X"," ","X",".">>],
         [name |-> <<"H","e","a","v","y">>, description |-> <<"S","l","o","w"," ","X",".">>] >>,
      << [name |-> <<"B","l","a","s","t"," ","X">>, description |-> <<"R","a","d","i","u","s"," ","X",".">>],
         [name |-> <<"(","X",")">>, description |-> <<"N","o","t","e"," ","X",".">>] >>,
      << [name |-> <<"H","e","a","v","y"," ","X","b","o","w">>, description |-> <<"B","i","g",".">>],
         [name |-> <<"H","e","a","v","y">>, description |-> <<"S","l","o","w",".">>] >> }

KeywordHeads == { <<>>, <<"R","e","a","c","h">>, <<"R","E","A","C","H">>, <<"B","l","a","s","t">>, <<"b","l","a","s","t">>, <<"H","e","a","v","y">>, <<"h","e","a","v","y">> }

KeywordParams == { <<"3">>, <<" ","3"," ">>, <<" ">>, <<"$","&">>, <<"$","$">>, <<"!">>, <<"X","b","o","w">> }

\* The raw keywords: a head alone, a head with a parameter in parentheses,
\* and a head with a parameter after a space.
KeywordInputs ==
    KeywordHeads
    \cup { h \o <<" ","(">> \o x \o <<")">> : h \in KeywordHeads, x \in KeywordParams }
    \cup { h \o <<" ">> \o x : h \in KeywordHeads, x \in KeywordParams }

\* The module is loaded: the matchers are built.
KeywordInit ==
    /\ kwDefs \in DefLists
    /\ kwMatchers = MatchersOf(kwDefs)
    /\ kwInput \in KeywordInputs
    /\ kwResolved = FALSE
    /\ kwResult = Null

\* A call of resolveWeaponKeyword.
ResolveKeyword ==
    /\ ~kwResolved
    /\ kwResolved' = TRUE
    /\ kwResult' = ResolveIn(kwMatchers, kwInput)
    /\ UNCHANGED <<kwDefs, kwInput, kwMatchers>>
    /\ UNCHANGED nonKeywordVars

InitKeyword ==
    /\ LoaderIdle
    /\ SearchIdle
    /\ ViewIdle
    /\ BlockIdle
    /\ KeywordInit
    /\ GlossaryIdle
    /\ AnnotateIdle
    /\ RowIdle
    /\ DiceIdle

KeywordNext == ResolveKeyword

SpecKeyword == InitKeyword /\ [][KeywordNext]_vars

----------------------------------------------------------------------------
(* Properties of keyword resolution *)

RECURSIVE WholeWordX(_, _, _)
\* description with every whole-word X replaced by the text param.
WholeWordX(description, param, i) ==
    IF i > Len(description) THEN <<>>
    ELSE IF /\ description[i] = "X"
            /\ (i = 1 \/ ~IsWordChar(description[i - 1]))
            /\ (i = Len(description) \/ ~IsWordChar(description[i + 1]))
         THEN param \o WholeWordX(description, param, i + 1)
         ELSE <<description[i]>> \o WholeWordX(description, param, i + 1)

\* C11: when the input matches a definition with a parameterized name, the
\* description returned is the definition's description with every
\* whole-word X replaced by the trimmed captured parameter, X staying in
\* place only when the trimmed parameter is empty.
C11_ParameterReplacesEveryX ==
    (kwResolved /\ kwResult # Null)
    => LET text == Trim(kwInput)
           def == kwMatchers[FirstMatch(kwMatchers, text)]
       IN  def.hasParam
           => LET param == Trim(RegexMatch(text, def.regex)[1])
              IN  kwResult.description =
                     WholeWordX(def.description,
                                IF param = <<>> THEN <<"X">> ELSE param, 1)

\* C12: inputs that differ only in letter case resolve to the same
\* definition, or all to none, and the label returned is the input's own
\* text.
C12_CaseInsensitiveKeepsLabel ==
    kwResolved
    => /\ kwResult # Null => kwResult.label = Trim(kwInput)
       /\ \A v \in KeywordInputs :
             ToLowerCase(v) = ToLowerCase(kwInput)
             => /\ (ResolveIn(kwMatchers, v) = Null) <=> (kwResult = Null)
                /\ FirstMatch(kwMatchers, Trim(v)) = FirstMatch(kwMatchers, Trim(kwInput))

C12_Witness ==
    /\ kwResolved
    /\ kwResult # Null
    /\ kwResult.label = <<"R","E","A","C","H"," ","(","3",")">>

RECURSIVE AlnumRuns(_, _, _)
\* The maximal runs of characters a-z and 0-9 of str, from position i on,
\* run being the one under way.
AlnumRuns(str, i, run) ==
    IF i > Len(str) THEN (IF run = <<>> THEN <<>> ELSE <<run>>)
    ELSE IF str[i] \in LowerSet \cup Digits
         THEN AlnumRuns(str, i + 1, Append(run, str[i]))
         ELSE (IF run = <<>> THEN <<>> ELSE <<run>>) \o AlnumRuns(str, i + 1, <<>>)

RECURSIVE JoinHyphen(_)
JoinHyphen(runs) ==
    IF runs = <<>> THEN <<>>
    ELSE IF Len(runs) = 1 THEN runs[1]
    ELSE runs[1] \o <<"-">> \o JoinHyphen(Tail(runs))

\* The slug of an input: its alphanumeric runs, lowercased, one hyphen
\* between two runs.
ExpectedSlug(input) == JoinHyphen(AlnumRuns(ToLowerCase(input), 1, <<>>))

\* C13: an input that resolves gets the anchor weapon-keyword-<slug>, or
\* the generic anchor when its slug is empty; an empty or whitespace-only
\* input gets no match.
C13_AnchorIsSlugOrGeneric ==
    kwResolved
    => /\ Trim(kwInput) = <<>> => kwResult = Null
       /\ kwResult # Null
          => kwResult.anchor =
                IF ExpectedSlug(kwInput) = <<>> THEN <<"w","e","a","p","o","n","-","k","e","y","w","o","r","d","s">>
                ELSE <<"w","e","a","p","o","n","-","k","e","y","w","o","r","d","-">> \o ExpectedSlug(kwInput)

C13_Witness ==
    /\ kwResolved
    /\ kwResult # Null
    /\ kwResult.anchor = <<"w","e","a","p","o","n","-","k","e","y","w","o","r","d","s">>

\* The name holds a space followed by X as a token of its own.
HasStandaloneX(name) ==
    \E k \in 1..(Len(name) - 1) :
        /\ name[k] = " "
        /\ name[k + 1] = "X"
        /\ (k + 1 = Len(name) \/ ~IsWordChar(name[k + 2]))

\* C19: a name is parameterized only when it holds (X) or a space followed
\* by a standalone X; every other name gets an exact matcher without a
\* parameter.
C19_ParameterizedOnlyByPlaceholder ==
    \A i \in 1..Len(kwMatchers) :
        LET name == Trim(kwDefs[i].name)
            m == kwMatchers[i]
        IN  IF Includes(name, <<"(","X",")">>)
            THEN m.hasParam /\ m.regex.kind = "paren"
            ELSE IF HasStandaloneX(name)
            THEN m.hasParam /\ m.regex.kind = "space"
            ELSE ~m.hasParam /\ m.regex.kind = "exact" /\ m.regex.pre = name

----------------------------------------------------------------------------
(* Glossary construction: buildGlossary over given documents and tables *)

\* Largest number of headings below the root of a document.
MaxHeadings == 2

S_Cold == <<"C","o","l","d">>

HeadingTitles == { S_Fire, S_Cold }

RECURSIVE HeadingForests(_)
\* The forests of n headings, every shape and every choice of titles.
HeadingForests(n) ==
    IF n = 0 THEN { <<>> }
    ELSE UNION { { <<[title |-> t, content |-> <<>>, sections |-> kids]>> \o rest :
                     t \in HeadingTitles,
                     kids \in HeadingForests(k),
                     rest \in HeadingForests(n - 1 - k) } : k \in 0..(n - 1) }

DigitChar == <<"0","1","2","3","4","5","6","7","8","9">>

RECURSIVE WithSlugs(_, _)
\* The headings of a forest given slugs of their own, one per position.
WithSlugs(forest, prefix) ==
    [i \in 1..Len(forest) |->
        [title |-> forest[i].title,
         slug |-> prefix \o <<DigitChar[i + 1]>>,
         content |-> forest[i].content,
         sections |-> WithSlugs(forest[i].sections, prefix \o <<DigitChar[i + 1]>>)]]

\* A document: a root section without a slug over a forest of headings.
RuleDoc(title, prefix, forest) ==
    [title |-> title, content |-> <<>>, sections |-> WithSlugs(forest, prefix)]

\* The document sets: two documents, the first one's root titled as a
\* heading or not.
DocSets ==
    { << RuleDoc(t1, <<"a">>, f1), RuleDoc(<<"B","e","t","a">>, <<"b">>, f2) >> :
        t1 \in { <<"A","l","f","a">>, S_Fire },
        f1 \in UNION { HeadingForests(n) : n \in 0..MaxHeadings },
        f2 \in UNION { HeadingForests(n) : n \in 0..MaxHeadings } }

\* The lookup tables: disjoint, an attribute and a skill of one name, a skill
\* and a weapon keyword of one name.
TooltipSources ==
    { [attributes |-> << [key |-> <<"M","i","g","h","t">>, value |-> <<"P","o","w","e","r",".">>] >>,
       skills |-> << [key |-> <<"A","i","m">>, value |-> <<"S","h","o","o","t","i","n","g",".">>] >>,
       keywords |-> << [name |-> <<"H","e","a","v","y">>, description |-> <<"S","l","o","w",".">>] >>],
      [attributes |-> << [key |-> <<"A","i","m">>, value |-> <<"A","t","t","r","i","b","u","t","e",".">>] >>,
       skills |-> << [key |-> <<"A","i","m">>, value |-> <<"S","k","i","l","l",".">>] >>,
       keywords |-> << [name |-> <<"H","e","a","v","y">>, description |-> <<"S","l","o","w",".">>] >>],
      [attributes |-> << [key |-> <<"M","i","g","h","t">>, value |-> <<"P","o","w","e","r",".">>] >>,
       skills |-> << [key |-> <<"H","e","a","v","y">>, value |-> <<"S","k","i","l","l",".">>] >>,
       keywords |-> << [name |-> <<"H","e","a","v","y">>, description |-> <<"S","l","o","w",".">>] >>] }

GlossaryInit ==
    /\ glDocs \in DocSets
    /\ \E src \in TooltipSources :
          /\ glAttributes = src.attributes
          /\ glSkills = src.skills
          /\ glKeywords = src.keywords
    /\ glBuilt = FALSE
    /\ glGlossary = Null

\* A call of buildGlossary.
BuildGlossary ==
    /\ ~glBuilt
    /\ glBuilt' = TRUE
    /\ glGlossary' = GlossaryFrom(glAttributes, glSkills, glKeywords, glDocs)
    /\ UNCHANGED <<glDocs, glAttributes, glSkills, glKeywords>>
    /\ UNCHANGED nonGlossaryVars

InitGlossary ==
    /\ LoaderIdle
    /\ SearchIdle
    /\ ViewIdle
    /\ BlockIdle
    /\ KeywordIdle
    /\ GlossaryInit
    /\ AnnotateIdle
    /\ RowIdle
    /\ DiceIdle

GlossaryNext == BuildGlossary

SpecGlossary == InitGlossary /\ [][GlossaryNext]_vars

----------------------------------------------------------------------------
(* Properties of glossary construction *)

RECURSIVE PathsOf(_)
\* The headings of a subtree, each as the path of child numbers to it.
PathsOf(section) ==
    { <<>> } \cup
    UNION { { <<i>> \o path : path \in PathsOf(SectionsOf(section)[i]) } :
              i \in 1..Len(SectionsOf(section)) }

RECURSIVE NodeAt(_, _)
NodeAt(section, path) ==
    IF path = <<>> THEN section
    ELSE NodeAt(SectionsOf(section)[Head(path)], Tail(path))

\* The headings of a document set: document number, then path.
Positions(docs) ==
    UNION { { <<d>> \o path : path \in PathsOf(docs[d]) } : d \in 1..Len(docs) }

HeadingAt(docs, pos) == NodeAt(docs[pos[1]], Tail(pos))

DepthOf(pos) == Len(pos) - 1

RECURSIVE Precedes(_, _)
\* Document traversal order: documents in order, a heading before the
\* headings below it, siblings in order.
Precedes(a, b) ==
    IF a = <<>> THEN b # <<>>
    ELSE IF b = <<>> THEN FALSE
    ELSE IF a[1] # b[1] THEN a[1] < b[1]
    ELSE Precedes(Tail(a), Tail(b))

\* The titles collected: trimmed, of four characters or more.
CollectedTitles(docs) ==
    { Trim(HeadingAt(docs, pos).title) : pos \in Positions(docs) }
    \ { t \in { Trim(HeadingAt(docs, pos).title) : pos \in Positions(docs) } :
          Len(t) < 4 \/ ToLowerCase(t) \in blacklist }

\* C14: the link target of a collected title is the first heading in
\* traversal order among those with the title at the least depth the title
\* occurs at, and sameLevelCount is the number of headings with the title
\* at that depth.
C14_LinkIsFirstAtMinDepth ==
    glBuilt
    => /\ { glGlossary.linkTerms[i].key : i \in 1..Len(glGlossary.linkTerms) }
            = CollectedTitles(glDocs)
       /\ \A t \in CollectedTitles(glDocs) :
             LET H == { pos \in Positions(glDocs) :
                          Trim(HeadingAt(glDocs, pos).title) = t }
                 W == { h \in H : \A g \in H : DepthOf(h) <= DepthOf(g) }
                 first == CHOOSE w \in W : \A v \in W \ {w} : Precedes(w, v)
             IN  MapGet(glGlossary.linkTerms, t) =
                    [id |-> getSectionId(HeadingAt(glDocs, first)),
                     docSlug |-> getSectionId(glDocs[first[1]]),
                     sameLevelCount |-> Cardinality(W)]

\* A heading of the second document wins over a deeper one of the first.
C14_Witness ==
    /\ glBuilt
    /\ MapHas(glGlossary.linkTerms, S_Fire)
    /\ MapGet(glGlossary.linkTerms, S_Fire).docSlug = <<"b","e","t","a">>
    /\ \E pos \in Positions(glDocs) :
          pos[1] = 1 /\ HeadingAt(glDocs, pos).title = S_Fire

\* The tooltip of a term in the first of the sources (attributes, skills,
\* weapon keywords) that holds the term.
FirstSourceTooltip(term) ==
    IF MapHas(glAttributes, term) THEN MapGet(glAttributes, term)
    ELSE IF MapHas(glSkills, term) THEN MapGet(glSkills, term)
    ELSE (CHOOSE k \in { glKeywords[i] : i \in 1..Len(glKeywords) } :
             k.name = term).description

\* C16: a term of more than one tooltip source keeps the tooltip of the
\* first source registered.
C16_FirstSourceWins ==
    glBuilt
    => \A i \in 1..Len(glGlossary.tooltipTerms) :
          glGlossary.tooltipTerms[i].value =
             FirstSourceTooltip(glGlossary.tooltipTerms[i].key)

----------------------------------------------------------------------------
(* Text annotation: calls of renderGlossaryText sharing one glossary *)

\* Largest number of annotate calls.
MaxCalls == 2

\* The glossaries: one with the tooltip term "Strength" and the link term
\* "Strength Save", one with tooltip terms only, one without any term.
AnnotateGlossaries ==
    { GlossaryFrom(<< [key |-> <<"S","t","r","e","n","g","t","h">>, value |-> <<"P","o","w","e","r",".">>] >>, <<>>, <<>>,
                   << [title |-> <<"R","u","l","e","s">>, content |-> <<>>,
                       sections |-> << [title |-> <<"S","t","r","e","n","g","t","h"," ","S","a","v","e">>, content |-> <<>>] >>] >>),
      GlossaryFrom(<< [key |-> <<"S","t","r","e","n","g","t","h">>, value |-> <<"P","o","w","e","r",".">>] >>,
                   << [key |-> <<"A","i","m">>, value |-> <<"S","h","o","o","t","i","n","g",".">>] >>,
                   << [name |-> <<"R","e","a","c","h"," ","(","X",")">>, description |-> <<"R","a","n","g","e"," ","X",".">>] >>, <<>>),
      GlossaryFrom(<<>>, <<>>, <<>>, <<>>) }

AnnotateTexts ==
    { <<>>, <<"S","t","r","e","n","g","t","h">>, <<"S","t","r","e","n","g","t","h"," ","S","a","v","e">>, <<"A"," ","S","t","r","e","n","g","t","h"," ","S","a","v","e"," ","r","o","l","l">>, <<"S","t","r","e","n","g","t","h","s"," ","S","a","v","e">>,
      <<"A","i","m",","," ","S","t","r","e","n","g","t","h">>, <<"S","a","v","e"," ","S","t","r","e","n","g","t","h"," ","S","a","v","e",".">>, <<"N","o"," ","t","e","r","m">>, <<"R","e","a","c","h"," ","(","X",")"," ","A","i","m">>,
      <<"R","u","l","e","s"," ","S","t","r","e","n","g","t","h">> }

AnnotateQueries == { <<>>, <<"e">>, <<"h"," ","s">> }

AnnotateInit ==
    /\ anGlossary \in AnnotateGlossaries
    /\ reLastIndex = 0
    /\ anCalls = 0
    /\ anText = <<>>
    /\ anQuery = <<>>
    /\ anNodes = <<>>

\* A call of renderGlossaryText.
Annotate ==
    /\ anCalls < MaxCalls
    /\ \E text \in AnnotateTexts, query \in AnnotateQueries :
          LET out == RenderGlossaryFrom(text, query, anGlossary, reLastIndex)
          IN  /\ anText' = text
              /\ anQuery' = query
              /\ anNodes' = out.nodes
              /\ reLastIndex' = out.reLast
    /\ anCalls' = anCalls + 1
    /\ UNCHANGED anGlossary
    /\ UNCHANGED nonAnnotateVars

InitAnnotate ==
    /\ LoaderIdle
    /\ SearchIdle
    /\ ViewIdle
    /\ BlockIdle
    /\ KeywordIdle
    /\ GlossaryIdle
    /\ AnnotateInit
    /\ RowIdle
    /\ DiceIdle

AnnotateNext == Annotate

SpecAnnotate == InitAnnotate /\ [][AnnotateNext]_vars

----------------------------------------------------------------------------
(* Properties of text annotation *)

\* The text of a node: the texts of its parts, in order.
NodeText(node) == Concat([i \in 1..Len(node.parts) |-> node.parts[i].text])

\* The 0-based position of the k-th node: the length of the text before it.
OffsetOf(nodes, k) == Len(Concat([i \in 1..(k - 1) |-> NodeText(nodes[i])]))

IsWrapper(node) == node.kind \in {"tooltip", "link"}

\* The terms of a glossary, as a set.
TermsOf(glossary) ==
    IF glossary.regex = Null THEN {}
    ELSE { glossary.regex.terms[i] : i \in 1..Len(glossary.regex.terms) }

\* C15: a term is never annotated at a position where a longer term that
\* contains it matches too; "Strength Save", with the terms "Strength" and
\* "Strength Save", is annotated as one phrase.
C15_LongestTermWins ==
    anCalls > 0
    => /\ \A k \in 1..Len(anNodes) :
             IsWrapper(anNodes[k])
             => \A t \in TermsOf(anGlossary) :
                   (Len(t) > Len(NodeText(anNodes[k])) /\ Includes(t, NodeText(anNodes[k])))
                   => ~TermMatchesAt(anText, t, OffsetOf(anNodes, k))
       /\ (anText = <<"S","t","r","e","n","g","t","h"," ","S","a","v","e">> /\ <<"S","t","r","e","n","g","t","h"," ","S","a","v","e">> \in TermsOf(anGlossary))
          => (Len(anNodes) = 1 /\ IsWrapper(anNodes[1])
              /\ NodeText(anNodes[1]) = <<"S","t","r","e","n","g","t","h"," ","S","a","v","e">>)

C15_Witness ==
    /\ anCalls > 0
    /\ anText = <<"S","t","r","e","n","g","t","h"," ","S","a","v","e">>
    /\ { <<"S","t","r","e","n","g","t","h">>, <<"S","t","r","e","n","g","t","h"," ","S","a","v","e">> } \subseteq TermsOf(anGlossary)
    /\ Len(anNodes) = 1
    /\ anNodes[1].kind = "link"

\* C18: whatever calls came before, a call returns what a first call with
\* the same text, query and glossary returns, and leaves no scan position
\* behind in the shared pattern.
C18_AnnotateIsPure ==
    /\ reLastIndex = 0
    /\ anCalls > 0 => anNodes = renderGlossaryText(anText, anQuery, anGlossary)

\* A second call, after a call that matched terms.
C18_Witness ==
    /\ anCalls = 2
    /\ \E k \in 1..Len(anNodes) : IsWrapper(anNodes[k])
    /\ anGlossary.regex # Null

\* C20: the segments are consecutive pieces of the text, which together
\* make up the text; a wrapper covers one whole occurrence of a term, and
\* highlighting marks pieces inside a segment only.
C20_SegmentsPartitionText ==
    anCalls > 0
    => /\ Concat([k \in 1..Len(anNodes) |-> NodeText(anNodes[k])]) = anText
       /\ \A k \in 1..Len(anNodes) :
             /\ NodeText(anNodes[k])
                  = Slice(anText, OffsetOf(anNodes, k),
                          OffsetOf(anNodes, k) + Len(NodeText(anNodes[k])))
             /\ IsWrapper(anNodes[k])
                => /\ NodeText(anNodes[k]) \in TermsOf(anGlossary)
                   /\ TermMatchesAt(anText, NodeText(anNodes[k]), OffsetOf(anNodes, k))
             /\ \A i \in 1..Len(anNodes[k].parts) :
                   anNodes[k].parts[i].mark
                   => ToLowerCase(anNodes[k].parts[i].text) = ToLowerCase(anQuery)

\* A search hit inside a term: one wrapper with three parts.
C20_Witness ==
    /\ anCalls > 0
    /\ anQuery = <<"h"," ","s">>
    /\ \E k \in 1..Len(anNodes) :
          /\ IsWrapper(anNodes[k])
          /\ Len(anNodes[k].parts) = 3
          /\ anNodes[k].parts[2].mark

----------------------------------------------------------------------------
(* Keyword table rows: the glossary built from a document and the table   *)
(* of the document rendered                                                *)

\* Largest number of body rows of the keyword table.
MaxRows == 2

\* The texts of the first cell of a body row.
RowKeywords ==
    { <<"R","e","a","c","h"," ","(","3",")">>, <<"R","e","a","c","h"," ","(","1","0","f","t",")">>, <<"r","e","a","c","h"," ","("," ","3"," ",")">>, <<"R","e","a","c","h"," ","(","1",","," ","2",")">>, <<"H","e","a","v","y">>,
      <<" ","h","e","a","v","y"," ">>, <<"f","o","o">>, <<>> }

\* The keyword tables: a header row and up to MaxRows body rows of two cells.
KeywordTables ==
    { { Table(<< <<Cell(S_Keyword), Cell(S_Effect)>> >>
            \o [r \in 1..n |-> <<Cell(firsts[r]), Cell(<<"F","a","r",".">>)>>]) :
        firsts \in [1..n -> RowKeywords] } : n \in 1..MaxRows }

\* The document set holding the table.
RowDocs(table) ==
    << [title |-> <<"W","e","a","p","o","n","s">>, content |-> <<table>>, sections |-> <<>>] >>

RowInit ==
    /\ rowTable \in UNION KeywordTables
    /\ rowQuery \in { <<>>, S_ea }
    /\ rowShown = FALSE
    /\ rowGlossary = Null
    /\ rowView = Null

\* The document set arrives: the glossary is built from it and the table
\* rendered with that glossary.
RenderRows ==
    /\ ~rowShown
    /\ rowShown' = TRUE
    /\ rowGlossary' = buildGlossary(RowDocs(rowTable))
    /\ rowView' = renderBlock(rowTable, rowQuery, buildGlossary(RowDocs(rowTable)))
    /\ UNCHANGED <<rowTable, rowQuery>>
    /\ UNCHANGED nonRowVars

InitRow ==
    /\ LoaderIdle
    /\ SearchIdle
    /\ ViewIdle
    /\ BlockIdle
    /\ KeywordIdle
    /\ GlossaryIdle
    /\ AnnotateIdle
    /\ RowInit
    /\ DiceIdle

RowNext == RenderRows

SpecRow == InitRow /\ [][RowNext]_vars

----------------------------------------------------------------------------
(* Properties of keyword table rows *)

\* The parameter resolveWeaponKeyword captures from a keyword that resolves,
\* <<>> when its definition has none.
CapturedParam(keyword) ==
    LET text == Trim(keyword)
        def == KEYWORD_MATCHERS[FirstMatch(KEYWORD_MATCHERS, text)]
    IN  IF def.hasParam THEN Trim(RegexMatch(text, def.regex)[1]) ELSE <<>>

\* C17: for a body row whose first cell resolves, the anchor registered in
\* the glossary, the id of the rendered row and the anchor resolve returns
\* are one anchor, and the cell is rendered as a link to that anchor with a
\* tooltip that holds the parameter.
C17_RowAnchorsAgree ==
    rowShown
    => \A r \in 1..Len(rowView.body) :
          LET text == rowTable.rows[r + 1][1].text
              info == resolveWeaponKeyword(text)
              nodes == rowView.body[r].cells[1]
          IN  info # Null
              => /\ MapHas(rowGlossary.anchorToDoc, info.anchor)
                 /\ rowView.body[r].id = info.anchor
                 /\ Len(nodes) = 1
                 /\ nodes[1].kind = "keyword"
                 /\ nodes[1].anchor = info.anchor
                 /\ Includes(nodes[1].title, CapturedParam(text))

----------------------------------------------------------------------------
(* Dice roll: checkDicePlusReady and rollWithDicePlusTotal.  A finite       *)
(* number is its value in tenths; time is the order of the events.          *)

\* Largest number of broadcast messages delivered during one call.
MaxMessages == 3

\* ---- values of a payload field ----
Undefined == [type |-> "undefined"]
Num(tenths) == [type |-> "number", finite |-> TRUE, tenths |-> tenths]
NotANumber == [type |-> "number", finite |-> FALSE, tenths |-> 0]
Str(text) == [type |-> "string", text |-> text]

DigitValue(c) == CHOOSE d \in 0..9 : DigitChar[d + 1] = c

RECURSIVE DigitsValue(_)
\* The value of a run of digits.
DigitsValue(ds) ==
    IF ds = <<>> THEN 0
    ELSE 10 * DigitsValue(SubSeq(ds, 1, Len(ds) - 1)) + DigitValue(ds[Len(ds)])

\* `Number(text)` for the strings of the model: white space around the
\* text is dropped, the empty string is 0, a decimal literal (sign, digits,
\* a point and digits) is its value, here to its first decimal, and any
\* other text is NaN.
StringToNumber(text) ==
    LET t == Trim(text)
        signed == t # <<>> /\ t[1] \in {"-", "+"}
        body == IF signed THEN Tail(t) ELSE t
        points == { i \in 1..Len(body) : body[i] = "." }
        point == IF points = {} THEN Len(body) + 1
                 ELSE CHOOSE i \in points : \A j \in points : i <= j
        whole == SubSeq(body, 1, point - 1)
        frac == SubSeq(body, point + 1, Len(body))
        wellFormed == /\ whole # <<>>
                      /\ \A i \in 1..Len(whole) : whole[i] \in Digits
                      /\ \A i \in 1..Len(frac) : frac[i] \in Digits
        magnitude == 10 * DigitsValue(whole)
                     + (IF frac = <<>> THEN 0 ELSE DigitValue(frac[1]))
    IN  IF t = <<>> THEN Num(0)
        ELSE IF ~wellFormed THEN NotANumber
        ELSE Num(IF signed /\ t[1] = "-" THEN 0 - magnitude ELSE magnitude)

\* `typeof c === "number" ? c : typeof c === "string" ? Number(c) : NaN`
CandidateNumber(c) ==
    IF c.type = "number" THEN c
    ELSE IF c.type = "string" THEN StringToNumber(c.text)
    ELSE NotANumber

\* Math.trunc of a finite number: the integer towards zero.
MathTrunc(n) ==
    Num(IF n.tenths >= 0 THEN 10 * (n.tenths \div 10)
        ELSE 0 - 10 * ((0 - n.tenths) \div 10))

\* extractTotal: the truncated first finite candidate, NaN without one.
extractTotal(data) ==
    LET candidates == << data.total, data.value,
                         IF data.result = Undefined THEN Undefined ELSE data.result.total,
                         IF data.result = Undefined THEN Undefined
                         ELSE data.result.totalValue >>
        finite == { i \in 1..4 : CandidateNumber(candidates[i]).finite }
    IN  IF finite = {} THEN NotANumber
        ELSE MathTrunc(CandidateNumber(candidates[CHOOSE i \in finite :
                                                    \A j \in finite : i <= j]))

\* ---- the broadcast messages ----
RollIds == { "own", "other" }

ResultPayloads ==
    { [total |-> Num(79), value |-> Undefined, result |-> Undefined],
      [total |-> Undefined, value |-> Str(<<"1","2",".","5">>), result |-> Undefined],
      [total |-> Undefined, value |-> Undefined, result |-> Undefined],
      [total |-> NotANumber, value |-> Undefined,
       result |-> [total |-> Undefined, totalValue |-> Num(0 - 35)]],
      [total |-> Str(<<"a","b","c">>), value |-> Undefined,
       result |-> [total |-> Str(<<>>), totalValue |-> Undefined]] }

ResultMessages ==
    { [channel |-> "roll-result", rollId |-> id, total |-> pl.total,
       value |-> pl.value, result |-> pl.result] :
        id \in RollIds, pl \in ResultPayloads }

ErrorMessages ==
    { [channel |-> "roll-error", rollId |-> id, error |-> e] :
        id \in RollIds, e \in { "", "Bad notation" } }

\* An answer to the readiness probe: its requestId is the probe's or not.
ReadyMessages ==
    { [channel |-> "isReady", sameRequest |-> same, ready |-> r] :
        same \in BOOLEAN, r \in BOOLEAN }

Pending == [state |-> "pending"]
Resolved(total) == [state |-> "resolved", total |-> total]
Rejected(message) == [state |-> "rejected", error |-> message]

\* resolve or reject of a promise: the first settlement stands.
Settle(promise, outcome) == IF promise = Pending THEN outcome ELSE promise

\* rollWithDicePlusTotal is called: checkDicePlusReady subscribes, sends the
\* probe without awaiting it and arms its timer.
CallRoll ==
    /\ dicePc = "idle"
    /\ dicePc' = "probing"
    /\ diceOutcome' = Pending
    /\ readyOutcome' = "pending"
    /\ readyListening' = TRUE
    /\ readyTimer' = TRUE
    /\ UNCHANGED <<rollListening, rollTimer, diceMsgs, diceLast>>
    /\ UNCHANGED nonDiceVars

\* A message on the isReady channel.  The right answer resolves the probe
\* with true; rollWithDicePlusTotal then goes on to its promise, whose
\* executor subscribes the two listeners and awaits sendMessage.
ReadyMessage(msg) ==
    /\ readyListening
    /\ diceMsgs < MaxMessages
    /\ diceMsgs' = diceMsgs + 1
    /\ diceLast' = msg
    /\ IF msg.sameRequest /\ msg.ready
       THEN /\ readyListening' = FALSE
            /\ readyOutcome' = "true"
            /\ dicePc' = "sending"
            /\ rollListening' = TRUE
       ELSE UNCHANGED <<readyListening, readyOutcome, dicePc, rollListening>>
    /\ UNCHANGED <<diceOutcome, readyTimer, rollTimer>>
    /\ UNCHANGED nonDiceVars

\* The timer of checkDicePlusReady fires: unsubscribe, resolve(false), which
\* rejects the call when the probe was not answered.
ReadyTimeout ==
    /\ readyTimer
    /\ readyTimer' = FALSE
    /\ readyListening' = FALSE
    /\ IF readyOutcome = "pending"
       THEN /\ readyOutcome' = "false"
            /\ dicePc' = "unavailable"
            /\ diceOutcome' = Settle(diceOutcome, Rejected("Dice+ is not available"))
       ELSE UNCHANGED <<readyOutcome, dicePc, diceOutcome>>
    /\ UNCHANGED <<rollListening, rollTimer, diceMsgs, diceLast>>
    /\ UNCHANGED nonDiceVars

\* The awaited sendMessage of the roll request settles.  Fulfilled, the
\* executor arms the timer; rejected, the executor ends there, its own
\* promise rejected and the timer never armed.
SendSettles(ok) ==
    /\ dicePc = "sending"
    /\ IF ok
       THEN dicePc' = "armed" /\ rollTimer' = TRUE
       ELSE dicePc' = "sendFailed" /\ UNCHANGED rollTimer
    /\ UNCHANGED <<diceOutcome, readyOutcome, readyListening, readyTimer,
                   rollListening, diceMsgs, diceLast>>
    /\ UNCHANGED nonDiceVars

\* Dice+ answers with a rollId only a request that was sent.
MayCarry(rollId) == rollId = "own" => dicePc \in { "sending", "armed" }

\* A message on the roll-result channel.
RollResult(msg) ==
    /\ rollListening
    /\ diceMsgs < MaxMessages
    /\ MayCarry(msg.rollId)
    /\ diceMsgs' = diceMsgs + 1
    /\ diceLast' = msg
    /\ IF msg.rollId = "own" /\ extractTotal(msg).finite
       THEN /\ rollListening' = FALSE
            /\ diceOutcome' = Settle(diceOutcome, Resolved(extractTotal(msg)))
       ELSE UNCHANGED <<rollListening, diceOutcome>>
    /\ UNCHANGED <<dicePc, readyOutcome, readyListening, readyTimer, rollTimer>>
    /\ UNCHANGED nonDiceVars

\* A message on the roll-error channel.
RollError(msg) ==
    /\ rollListening
    /\ diceMsgs < MaxMessages
    /\ MayCarry(msg.rollId)
    /\ diceMsgs' = diceMsgs + 1
    /\ diceLast' = msg
    /\ IF msg.rollId = "own"
       THEN /\ rollListening' = FALSE
            /\ diceOutcome' =
                  Settle(diceOutcome,
                         Rejected(IF msg.error # "" THEN msg.error
                                  ELSE "Dice+ roll failed"))
       ELSE UNCHANGED <<rollListening, diceOutcome>>
    /\ UNCHANGED <<dicePc, readyOutcome, readyListening, readyTimer, rollTimer>>
    /\ UNCHANGED nonDiceVars

\* The timer of rollWithDicePlusTotal fires: cleanup, reject.
RollTimeout ==
    /\ rollTimer
    /\ rollTimer' = FALSE
    /\ rollListening' = FALSE
    /\ diceOutcome' =
          Settle(diceOutcome, Rejected("Dice+ roll timed out (no roll-result received)"))
    /\ UNCHANGED <<dicePc, readyOutcome, readyListening, readyTimer, diceMsgs, diceLast>>
    /\ UNCHANGED nonDiceVars

InitDice ==
    /\ LoaderIdle
    /\ SearchIdle
    /\ ViewIdle
    /\ BlockIdle
    /\ KeywordIdle
    /\ GlossaryIdle
    /\ AnnotateIdle
    /\ RowIdle
    /\ DiceIdle

DiceNext ==
    \/ CallRoll
    \/ \E msg \in ReadyMessages : ReadyMessage(msg)
    \/ ReadyTimeout
    \/ \E ok \in BOOLEAN : SendSettles(ok)
    \/ \E msg \in ResultMessages : RollResult(msg)
    \/ \E msg \in ErrorMessages : RollError(msg)
    \/ RollTimeout

\* An armed timer fires, and an awaited sendMessage settles one way or the
\* other; whether and when Dice+ sends a message is up to Dice+.
DiceFairness ==
    /\ WF_vars(ReadyTimeout)
    /\ WF_vars(RollTimeout)
    /\ WF_vars(\E ok \in BOOLEAN : SendSettles(ok))

SpecDice == InitDice /\ [][DiceNext]_vars /\ DiceFairness

----------------------------------------------------------------------------
(* Properties of the dice roll *)

\* The step delivers a message.
Delivers == diceMsgs' = diceMsgs + 1

\* The delivered message is a roll-result with the call's rollId and a
\* finite total.
OwnFiniteResult(msg) ==
    /\ msg.channel = "roll-result"
    /\ msg.rollId = "own"
    /\ extractTotal(msg).finite

\* How a pending call settles in one step, and what it ignores.
SettlesAsClaimed ==
    diceOutcome = Pending
    => /\ diceOutcome' = Rejected("Dice+ is not available")
          => readyOutcome = "pending" /\ readyOutcome' = "false"
       /\ diceOutcome'.state = "resolved"
          => /\ Delivers /\ OwnFiniteResult(diceLast')
             /\ diceOutcome'.total = extractTotal(diceLast')
       /\ (rollListening /\ Delivers /\ OwnFiniteResult(diceLast'))
          => diceOutcome'.state = "resolved"
       /\ (rollListening /\ Delivers /\ diceLast'.channel = "roll-error"
           /\ diceLast'.rollId = "own")
          => diceOutcome'.state = "rejected"
       /\ (Delivers /\ diceLast'.channel # "isReady" /\ diceLast'.rollId = "other")
          => diceOutcome' = Pending
       /\ (Delivers /\ diceLast'.channel = "roll-result" /\ ~extractTotal(diceLast').finite)
          => diceOutcome' = Pending

\* C21: a call of rollWithDicePlusTotal settles as the messages and timers
\* say, and does not stay pending for ever: every pending call is
\* eventually resolved or rejected, also when sending the roll request
\* fails.
C21_RollEventuallySettles ==
    /\ [][SettlesAsClaimed]_vars
    /\ (diceOutcome = Pending) ~> (diceOutcome.state \in { "resolved", "rejected" })

Init ==
    /\ LoaderInit
    /\ SearchIdle
    /\ ViewIdle
    /\ BlockIdle
    /\ EngineIdle

Spec == Init /\ [][LoaderNext]_vars

----------------------------------------------------------------------------
(* Properties of the rules loader *)

\* Attempt a takes a step of loadLatest in this transition.
StepOf(a) == att[a].pc # "idle" /\ att'[a].pc # att[a].pc

\* Attempt a returns from loadLatest in this transition.
Returns(a) == StepOf(a) /\ att'[a].pc = "done"

\* The version the server was publishing when it answered the metadata
\* request of attempt a, seen from the transition in which a returns.
AnsweredVer(a) == IF att[a].pc = "awaitMeta" THEN serverVer ELSE att[a].metaVer

\* C2: a load attempt whose requests all succeed and whose component stays
\* mounted reuses the cached document on not-modified only when that
\* document is the server's current one, and never leaves the program on a
\* document older than the one the server was publishing when it answered
\* the attempt's metadata request.
C2_NeverStaleAfterLoad ==
    [][\A a \in Attempts :
          (Returns(a) /\ ~att[a].cancelled /\ returned'.how # "failed")
          => /\ (returned'.how = "revalidated" => rules' = serverVer)
             /\ rules' >= AnsweredVer(a)]_vars

C4_CancelledNeverSetsRules ==
    [][\A a \in Attempts :
          (att[a].cancelled /\ StepOf(a)) => rules' = rules]_vars

\* C4 witness: an attempt ran to the point where it would have set the
\* document set and returned because `cancelled` was set, while the server
\* publishes a document the program is not showing.
C4_Witness == returned.how = "discarded" /\ rules # serverVer

====
